---------------------------- MODULE Spec2Model ----------------------------
(***************************************************************************)
(* Adaptive workload placement control plane: the GreedyLB placer, the     *)
(* RefineLB placer and the pattern detector, each a single-threaded loop   *)
(* talking to the orchestrator's API server.  Every API call of a loop is  *)
(* one step, so the loops interleave at their suspension points.  An API   *)
(* call may be answered or raise ApiException; the code's handler of the   *)
(* exception is part of the step.                                          *)
(*                                                                         *)
(* Units: CPU is counted in units of 50 millicores, memory in units of     *)
(* 128 Mi, so that the quantities of the code stay small integers.  Scores *)
(* and growth rates are exact rationals, held as integers scaled by a      *)
(* common denominator or as fractions.                                     *)
(***************************************************************************)
EXTENDS Integers, Sequences, FiniteSets, TLC

VARIABLES
    pods,        \* API server: pod id -> [phase, node_name, scheduler_name, spec]
    nodeReady,   \* API server: node -> condition Ready is "True"
    nodeUnsched, \* API server: node -> spec.unschedulable ("null", "true", "false")
    deployments, \* API server: deployment -> scheduler name of its pod template
    pc,          \* placer -> position of its watch loop
    stream,      \* placer -> events pushed by the server and not yet read
    cur,         \* placer -> the event whose pod is being placed
    nodes,       \* placer -> node objects kept by get_schedulable_nodes
    idx,         \* placer -> index of the node loop in progress
    usages,      \* placer -> all_nodes_usage of RefineLB's select_best_node
    scores,      \* placer -> one entry per node scored in this attempt
    lastBind,    \* placer -> the last bind call and its outcome
    lastError,   \* placer -> the last exception its watch loop has handled
    disturbed,   \* number of disturbances so far: flag changes of nodes,
                 \* exceptions of API calls, updates and failures of pods
    created,     \* number of pods created so far
    dpc,                \* detector: position of monitor_loop
    iteration,          \* detector: monitor_loop's iteration counter
    pod_count_history,  \* detector: the sample window
    current_scheduler,  \* detector: the placer last switched to
    current_pattern,    \* detector: the pattern of the last switch
    optimal_scheduler,  \* detector: the placer the last decision chose
    listed,             \* detector: deployments.items of switch_scheduler
    cursor,             \* detector: position of the loop over listed
    switched_count,     \* detector: switched_count of switch_scheduler
    patches,            \* detector: patch calls issued by the last decision
    rate_and_trend,     \* detector: growth_rate and trend of the last decision
    detected_pattern,   \* detector: pattern of the last decision
    pod_list,           \* detector: the pod list get_active_pod_count holds
    applied,            \* decisions taken again on the same window
    quantity,    \* the quantity string handed to the parsers of the placers
    parsed,      \* what each parser of each placer has returned for it
    args,        \* the arguments a function of a placer is called with
    returned     \* what the function has returned for them

placerVars == <<pc, stream, cur, nodes, idx, usages, scores, lastBind, lastError>>
apiVars == <<pods, nodeReady, nodeUnsched>>
envVars == <<disturbed, created>>
detVars == <<deployments, dpc, iteration, pod_count_history, current_scheduler,
             current_pattern, optimal_scheduler, listed, cursor, switched_count,
             patches, rate_and_trend, detected_pattern, pod_list, applied>>
parseVars == <<quantity, parsed>>
callVars == <<args, returned>>
vars == <<pods, nodeReady, nodeUnsched, deployments, pc, stream, cur, nodes, idx,
          usages, scores, lastBind, lastError, disturbed, created, dpc,
          iteration, pod_count_history, current_scheduler, current_pattern,
          optimal_scheduler, listed, cursor, switched_count, patches,
          rate_and_trend, detected_pattern, pod_list, applied, quantity, parsed,
          args, returned>>

---------------------------------------------------------------------------
(* Bounds of the model *)

MaxPods == 2
MaxDisturbed == 1
MaxPerKind == 1
MaxIterations == 7
MaxRate == 31
MaxChars == 3
MaxCandidates == 3
MaxScore == 2
MaxUsed == 2
MaxRequest == 1
MaxContainers == 2

---------------------------------------------------------------------------
(* Names *)

GREEDY_LB == "greedylb-scheduler"
REFINE_LB == "refinelb-scheduler"
\* the two placers, each known by its scheduler name
Placers == {GREEDY_LB, REFINE_LB}

Null == "null"
NodeNames == <<"n1", "n2">>
Nodes == {NodeNames[i] : i \in 1..Len(NodeNames)}
PodIds == 1..MaxPods

\* status.allocatable of the nodes
cpu_allocatable(n) == IF n = "n1" THEN 3 ELSE 4
memory_allocatable(n) == IF n = "n1" THEN 2 ELSE 4

\* resources.requests of a container that declares none
NoRequests == [k \in {} |-> 0]

\* pod templates: the containers of a pod, each with its resources.requests
PodSpecs ==
    [full   |-> <<[requests |-> [cpu |-> 2, memory |-> 1]]>>,
     none   |-> <<[requests |-> NoRequests]>>,
     memory |-> <<[requests |-> [memory |-> 1]]>>,
     unparsable |-> <<[requests |-> [cpu |-> 0]]>>]
SpecNames == DOMAIN PodSpecs
\* the templates of the pods submitted in the model
SubmittedSpecs == {"full"}

\* the template whose cpu request is a string that float() rejects; the
\* number it holds above is never read
Unparsable(spec) == spec = "unparsable"

AbsentPod == [phase |-> "Absent", node_name |-> Null,
              scheduler_name |-> Null, spec |-> "none"]

---------------------------------------------------------------------------
(* Helpers *)

Max(a, b) == IF a >= b THEN a ELSE b
Abs(x) == IF x < 0 THEN -x ELSE x

RECURSIVE SeqSum(_)
SeqSum(s) == IF s = <<>> THEN 0 ELSE Head(s) + SeqSum(Tail(s))

RECURSIVE SeqProduct(_)
SeqProduct(s) == IF s = <<>> THEN 1 ELSE Head(s) * SeqProduct(Tail(s))

RECURSIVE SetToSeq(_)
\* the elements of a set of pod ids in increasing order
SetToSeq(S) ==
    IF S = {} THEN <<>>
    ELSE LET m == CHOOSE x \in S : \A y \in S : x <= y
         IN <<m>> \o SetToSeq(S \ {m})

RECURSIVE Gcd(_, _)
Gcd(a, b) == IF b = 0 THEN a ELSE Gcd(b, a % b)
Lcm(a, b) == (a * b) \div Gcd(a, b)

RECURSIVE LcmOf(_)
LcmOf(s) == IF s = <<>> THEN 1 ELSE Lcm(Head(s), LcmOf(Tail(s)))

\* Common denominators of the fractions the scores are built from
CpuDen == LcmOf([i \in 1..Len(NodeNames) |-> Max(cpu_allocatable(NodeNames[i]), 1)])
MemDen == LcmOf([i \in 1..Len(NodeNames) |-> Max(memory_allocatable(NodeNames[i]), 1)])
CountDen == LcmOf([i \in 1..Len(NodeNames) |-> i])
Den == CpuDen * MemDen * CountDen

---------------------------------------------------------------------------
(* The API server, as the placers use it *)

\* list_node: the node objects, in the server's order
ListNode ==
    [i \in 1..Len(NodeNames) |->
        [name |-> NodeNames[i],
         ready |-> nodeReady[NodeNames[i]],
         unschedulable |-> nodeUnsched[NodeNames[i]]]]

\* list_pod_for_all_namespaces with the field selector
\* spec.nodeName=<n>,status.phase!=Failed,status.phase!=Succeeded
PodsOnNode(n) ==
    SetToSeq({i \in PodIds : /\ pods[i].phase \notin {"Absent", "Failed", "Succeeded"}
                             /\ pods[i].node_name = n})

\* a selector that leaves out the scheduler name
MatchesWatchAnyScheduler(p, pod) ==
    /\ pod.phase # "Absent"
    /\ pod.node_name = Null

\* the field selector spec.schedulerName=<p>,spec.nodeName= of a placer's watch
MatchesWatch(p, pod) ==
    /\ pod.phase # "Absent"
    /\ pod.scheduler_name = p
    /\ pod.node_name = Null

Event(type, i, pod) ==
    [type |-> type, pod |-> i, phase |-> pod.phase, node_name |-> pod.node_name,
     scheduler_name |-> pod.scheduler_name]

NoBind == [pod |-> 0, node |-> Null, result |-> "none"]

\* schedule_pod returned False without a bind call: no node for the pod
NoNode(i) == [pod |-> i, node |-> Null, result |-> "no_node"]

NoEvent == [type |-> "NONE", pod |-> 0, phase |-> Null, node_name |-> Null,
            scheduler_name |-> Null]

\* the detector has computed no growth rate yet
NoRate == [num |-> 0, den |-> 1, trend |-> Null]

\* the detector holds no pod list
NoList == [answered |-> FALSE, items |-> <<>>]

\* no function has been called, and none has returned
NoArgs == [fn |-> "none"]
NoReturn == [fn |-> "none"]

\* a watch that starts with no event at all
InitialEventsNone(p) == <<>>

\* a watch opened without a resource version lists first: one ADDED event per
\* pod that matches the selector
InitialEvents(p) ==
    LET ids == SetToSeq({i \in PodIds : MatchesWatch(p, pods[i])})
    IN [k \in 1..Len(ids) |-> Event("ADDED", ids[k], pods[ids[k]])]

StreamOpen(p) == pc[p] \notin {"subscribe", "expired", "backoff"}

\* the server pushes an event to the placer whose selector the pod matches
Push(p, ev) ==
    [q \in Placers |-> IF q = p /\ StreamOpen(q) THEN Append(stream[q], ev)
                       ELSE stream[q]]

\* a server that binds a pod again
BindingAcceptedAgain(i) == pods[i].phase # "Absent"

\* create_namespaced_binding is accepted iff the pod exists and has no node
BindingAccepted(i) == pods[i].phase # "Absent" /\ pods[i].node_name = Null

---------------------------------------------------------------------------
(* Resource model shared by the placers *)

\* requests.get(key, default) followed by the parser: an absent key gives the
\* default
Requested(container, key, default) ==
    IF key \in DOMAIN container.requests THEN container.requests[key] ELSE default

RECURSIVE ContainersSum(_, _, _)
\* the loop over the containers that declare requests
ContainersSum(containers, key, default) ==
    IF containers = <<>> THEN 0
    ELSE LET c == Head(containers)
         IN (IF DOMAIN c.requests # {} THEN Requested(c, key, default) ELSE 0)
            + ContainersSum(Tail(containers), key, default)

RECURSIVE PodsSum(_, _)
\* the sum, over the listed pods, of the requests their containers declare
PodsSum(ids, key) ==
    IF ids = <<>> THEN 0
    ELSE ContainersSum(PodSpecs[pods[Head(ids)].spec], key, 0)
         + PodsSum(Tail(ids), key)

---------------------------------------------------------------------------
(* get_schedulable_nodes, the same in both placers *)

\* a readiness test that takes every node for ready
IsReadyAlways(node) == TRUE

IsReady(node) == node.ready

IsSchedulable(node) ==
    IF node.unschedulable # Null THEN node.unschedulable # "true" ELSE TRUE

KeepNode(node) == IsReady(node) /\ IsSchedulable(node)

\* the nodes kept from the list; none when list_node raises ApiException
GetSchedulableNodes(answered) ==
    IF answered THEN SelectSeq(ListNode, KeepNode) ELSE <<>>

---------------------------------------------------------------------------
(* GreedyLB: calculate_node_score and select_best_node *)

\* total_score, times CpuDen * MemDen; 0 when the pod list raises
CalculateNodeScore(n, answered) ==
    IF ~ answered THEN 0
    ELSE
    LET on == PodsOnNode(n)
        cpu_available == cpu_allocatable(n) - PodsSum(on, "cpu")
        memory_available == memory_allocatable(n) - PodsSum(on, "memory")
        cpu_score == cpu_available * (CpuDen \div Max(cpu_allocatable(n), 1)) * 70
        memory_score ==
            memory_available * (MemDen \div Max(memory_allocatable(n), 1)) * 30
    IN cpu_score * MemDen + memory_score * CpuDen

RECURSIVE GreedyBestLast(_, _, _)
\* a loop that lets a later node with an equal score take over
GreedyBestLast(scored, best_node, best_score) ==
    IF scored = <<>> THEN best_node
    ELSE IF Head(scored).score >= best_score
         THEN GreedyBestLast(Tail(scored), Head(scored).node, Head(scored).score)
         ELSE GreedyBestLast(Tail(scored), best_node, best_score)

RECURSIVE GreedyBest(_, _, _)
\* the loop of select_best_node: the first node whose score exceeds every
\* score before it, starting from best_score = -1; Null when there is none
GreedyBest(scored, best_node, best_score) ==
    IF scored = <<>> THEN best_node
    ELSE IF Head(scored).score > best_score
         THEN GreedyBest(Tail(scored), Head(scored).node, Head(scored).score)
         ELSE GreedyBest(Tail(scored), best_node, best_score)

\* a selection that asks for a score above 0
GreedySelectAboveZero(scored) == GreedyBest(scored, Null, 0)

GreedySelect(scored) == GreedyBest(scored, Null, (-1) * CpuDen * MemDen)

\* a choice among the nodes that have the cpu and the memory the pod of the
\* given template requests
GreedyChoiceFitting(scored, spec) ==
    LET Fits(e) ==
          /\ cpu_allocatable(e.node) - PodsSum(PodsOnNode(e.node), "cpu")
                >= ContainersSum(PodSpecs[spec], "cpu", 0)
          /\ memory_allocatable(e.node) - PodsSum(PodsOnNode(e.node), "memory")
                >= ContainersSum(PodSpecs[spec], "memory", 0)
    IN GreedySelect(SelectSeq(scored, Fits))

\* schedule_pod of GreedyLB: the node selected for a pod of the given template
\* is select_best_node(nodes), which is not handed the pod
GreedyChoice(scored, spec) == GreedySelect(scored)

---------------------------------------------------------------------------
(* RefineLB: get_node_resource_usage, get_pod_resource_requests,           *)
(* calculate_refined_score and select_best_node                            *)

\* get_node_resource_usage returned None: the pod list raised
NoUsage ==
    [name |-> Null, cpu_allocatable |-> 0, memory_allocatable |-> 0,
     cpu_used |-> 0, memory_used |-> 0, cpu_available |-> 0,
     memory_available |-> 0, pod_count |-> 0]

GetNodeResourceUsage(n, answered) ==
    IF ~ answered THEN NoUsage
    ELSE
    LET on == PodsOnNode(n)
        cpu_used == PodsSum(on, "cpu")
        memory_used == PodsSum(on, "memory")
    IN [name |-> n,
        cpu_allocatable |-> cpu_allocatable(n),
        memory_allocatable |-> memory_allocatable(n),
        cpu_used |-> cpu_used,
        memory_used |-> memory_used,
        cpu_available |-> cpu_allocatable(n) - cpu_used,
        memory_available |-> memory_allocatable(n) - memory_used,
        pod_count |-> Len(on)]

\* the default quantities "100m" and "128Mi", in the model's units
DefaultCpu == 2
DefaultMemory == 1

\* get_pod_resource_requests for a pod with these containers
PodResourceRequests(containers) ==
    LET cpu_request == ContainersSum(containers, "cpu", DefaultCpu)
        memory_request == ContainersSum(containers, "memory", DefaultMemory)
    IN [cpu |-> IF cpu_request = 0 THEN DefaultCpu ELSE cpu_request,
        memory |-> IF memory_request = 0 THEN DefaultMemory ELSE memory_request]

GetPodResourceRequests(spec) == PodResourceRequests(PodSpecs[spec])

\* x / max(allocatable, 1) * 100, times Den
CpuPercent(x, usage) == x * 100 * (Den \div Max(usage.cpu_allocatable, 1))
MemPercent(x, usage) == x * 100 * (Den \div Max(usage.memory_allocatable, 1))

\* a mean that is the utilisation of the first usage alone
AvgCpuUtilFirst(all) == CpuPercent(all[1].cpu_used, all[1])

\* the mean, over all_nodes_usage, of the utilisation, times Den
AvgCpuUtil(all) ==
    SeqSum([k \in 1..Len(all) |-> CpuPercent(all[k].cpu_used, all[k])]) \div Len(all)
AvgMemUtil(all) ==
    SeqSum([k \in 1..Len(all) |-> MemPercent(all[k].memory_used, all[k])]) \div Len(all)

Feasible(usage, pod_request) ==
    ~ (\/ usage.cpu_available < pod_request.cpu
       \/ usage.memory_available < pod_request.memory)

max_pods == 110
target_util == 65

\* total_score, times 220 * Den; 0 when the usage could not be read or the
\* pod does not fit
CalculateRefinedScore(usage, pod_request, all) ==
    IF usage.name = Null THEN 0
    ELSE IF ~ Feasible(usage, pod_request) THEN 0
    ELSE
    LET cpu_after == usage.cpu_available - pod_request.cpu
        memory_after == usage.memory_available - pod_request.memory
        \* ratio * 100 * Den
        cpu_ratio == CpuPercent(cpu_after, usage)
        memory_ratio == MemPercent(memory_after, usage)
        \* (cpu_ratio * 0.5 + memory_ratio * 0.5) * 40, times 220 * Den
        resources_score == 44 * (cpu_ratio + memory_ratio)
        new_cpu_util == CpuPercent(usage.cpu_used + pod_request.cpu, usage)
        new_mem_util == MemPercent(usage.memory_used + pod_request.memory, usage)
        cpu_balance == 100 * Den - Abs(new_cpu_util - AvgCpuUtil(all))
        mem_balance == 100 * Den - Abs(new_mem_util - AvgMemUtil(all))
        \* (cpu_balance * 0.5 + mem_balance * 0.5) * 0.3, times 220 * Den
        balance_score == 33 * (cpu_balance + mem_balance)
        \* (1 - pod_count / max_pods) * 20, times 220 * Den
        pod_density == (max_pods - usage.pod_count) * 40 * Den
        cpu_target_score == 100 * Den - Abs(new_cpu_util - target_util * Den)
        mem_target_score == 100 * Den - Abs(new_mem_util - target_util * Den)
        \* (cpu_target_score * 0.5 + mem_target_score * 0.5) * 0.1, times 220 * Den
        target_score == 11 * (cpu_target_score + mem_target_score)
    IN resources_score + balance_score + pod_density + target_score

\* scored_nodes keeping the entries with score 0 too
ScoredNodesWithZero(scored) == SelectSeq(scored, LAMBDA e : e.score >= 0)

\* scored_nodes: the entries with score > 0
ScoredNodes(scored) == SelectSeq(scored, LAMBDA e : e.score > 0)

RECURSIVE LastMax(_, _)
\* a sort that puts the last of several equal scores first
LastMax(scored, best) ==
    IF scored = <<>> THEN best
    ELSE IF Head(scored).score >= best.score
         THEN LastMax(Tail(scored), Head(scored))
         ELSE LastMax(Tail(scored), best)

RECURSIVE FirstMax(_, _)
\* the head of scored_nodes after the stable descending sort: the first entry
\* with the highest score
FirstMax(scored, best) ==
    IF scored = <<>> THEN best
    ELSE IF Head(scored).score > best.score
         THEN FirstMax(Tail(scored), Head(scored))
         ELSE FirstMax(Tail(scored), best)

RefineSelect(scored) ==
    LET kept == ScoredNodes(scored)
    IN IF kept = <<>> THEN Null ELSE FirstMax(Tail(kept), Head(kept)).node

---------------------------------------------------------------------------
(* Resource quantities: parse_cpu and parse_memory, static methods that    *)
(* each placer defines for itself.  A string is a sequence of characters;  *)
(* a float is the exact fraction num / den times base^power, the integers  *)
(* of the checker being 32 bits wide.                                      *)

DigitChars == <<"0", "1", "2", "3", "4", "5", "6", "7", "8", "9">>
IsDigit(c) == \E d \in 1..Len(DigitChars) : DigitChars[d] = c
DigitOf(c) == (CHOOSE d \in 1..Len(DigitChars) : DigitChars[d] = c) - 1

RECURSIVE Pow(_, _)
Pow(b, e) == IF e = 0 THEN 1 ELSE b * Pow(b, e - 1)

RECURSIVE Digits(_)
\* the number a sequence of digits writes
Digits(s) ==
    IF s = <<>> THEN 0
    ELSE Digits(SubSeq(s, 1, Len(s) - 1)) * 10 + DigitOf(s[Len(s)])

\* float(...) raised ValueError
ValueError == [ok |-> FALSE, num |-> 0, den |-> 1, base |-> 1, power |-> 0]

Number(num, den) == [ok |-> TRUE, num |-> num, den |-> den, base |-> 1, power |-> 0]

\* float(s) for a string of digits and points: digits with at most one
\* point among them and one digit at least; anything else is a ValueError
Float(s) ==
    LET points == {k \in 1..Len(s) : s[k] = "."}
        digits == SelectSeq(s, IsDigit)
    IN IF \/ \E k \in 1..Len(s) : ~ IsDigit(s[k]) /\ s[k] # "."
          \/ Cardinality(points) > 1
          \/ digits = <<>>
       THEN ValueError
       ELSE Number(Digits(digits),
                   IF points = {} THEN 1
                   ELSE Pow(10, Len(s) - (CHOOSE k \in points : TRUE)))

\* x * base^power and x / d, a ValueError staying one
Times(x, base, power) ==
    IF x.ok THEN [x EXCEPT !.base = base, !.power = power] ELSE x
TimesInt(x, n) == IF x.ok THEN [x EXCEPT !.num = x.num * n] ELSE x
DividedBy(x, d) == IF x.ok THEN [x EXCEPT !.den = x.den * d] ELSE x

\* s.endswith(suffix) and s[:-len(suffix)]
EndsWith(s, suffix) ==
    /\ Len(s) >= Len(suffix)
    /\ SubSeq(s, Len(s) - Len(suffix) + 1, Len(s)) = suffix
Without(s, suffix) == SubSeq(s, 1, Len(s) - Len(suffix))

\* a quantity: a string, or None when the object holds none
NoQuantity == [present |-> FALSE, chars |-> <<>>]
Quantity(chars) == [present |-> TRUE, chars |-> chars]

\* "if not cpu_string": None and the empty string
Not(string) == ~ string.present \/ string.chars = <<>>

\* a parser that takes the suffix n for a thousandth of a millicore
ParseCpuNanoAsMicro(cpu_string) ==
    IF Not(cpu_string) THEN Number(0, 1)
    ELSE IF EndsWith(cpu_string.chars, <<"m">>)
         THEN Float(Without(cpu_string.chars, <<"m">>))
    ELSE IF EndsWith(cpu_string.chars, <<"n">>)
         THEN DividedBy(Float(Without(cpu_string.chars, <<"n">>)), 1000)
    ELSE TimesInt(Float(cpu_string.chars), 1000)

\* GreedyLBScheduler.parse_cpu: millicores
GreedyParseCpu(cpu_string) ==
    IF Not(cpu_string) THEN Number(0, 1)
    ELSE IF EndsWith(cpu_string.chars, <<"m">>)
         THEN Float(Without(cpu_string.chars, <<"m">>))
    ELSE IF EndsWith(cpu_string.chars, <<"n">>)
         THEN DividedBy(Float(Without(cpu_string.chars, <<"n">>)), 1000000)
    ELSE TimesInt(Float(cpu_string.chars), 1000)

\* RefineLBScheduler.parse_cpu: millicores
RefineParseCpu(cpu_string) ==
    IF Not(cpu_string) THEN Number(0, 1)
    ELSE IF EndsWith(cpu_string.chars, <<"m">>)
         THEN Float(Without(cpu_string.chars, <<"m">>))
    ELSE IF EndsWith(cpu_string.chars, <<"n">>)
         THEN DividedBy(Float(Without(cpu_string.chars, <<"n">>)), 1000000)
    ELSE TimesInt(Float(cpu_string.chars), 1000)

\* a dict in which every unit is a power of 1000
UnitsAllDecimal ==
    <<[unit |-> <<"K", "i">>, base |-> 1000, power |-> 1],
      [unit |-> <<"M", "i">>, base |-> 1000, power |-> 2],
      [unit |-> <<"G", "i">>, base |-> 1000, power |-> 3],
      [unit |-> <<"T", "i">>, base |-> 1000, power |-> 4],
      [unit |-> <<"K">>, base |-> 1000, power |-> 1],
      [unit |-> <<"M">>, base |-> 1000, power |-> 2],
      [unit |-> <<"G">>, base |-> 1000, power |-> 3],
      [unit |-> <<"T">>, base |-> 1000, power |-> 4]>>

\* the dict units of parse_memory, in its order
units ==
    <<[unit |-> <<"K", "i">>, base |-> 1024, power |-> 1],
      [unit |-> <<"M", "i">>, base |-> 1024, power |-> 2],
      [unit |-> <<"G", "i">>, base |-> 1024, power |-> 3],
      [unit |-> <<"T", "i">>, base |-> 1024, power |-> 4],
      [unit |-> <<"K">>, base |-> 1000, power |-> 1],
      [unit |-> <<"M">>, base |-> 1000, power |-> 2],
      [unit |-> <<"G">>, base |-> 1000, power |-> 3],
      [unit |-> <<"T">>, base |-> 1000, power |-> 4]>>


RECURSIVE FirstUnit(_, _)
\* the loop over units.items(): the first unit the string ends with decides
FirstUnit(chars, us) ==
    IF us = <<>> THEN Float(chars)
    ELSE IF EndsWith(chars, Head(us).unit)
         THEN Times(Float(Without(chars, Head(us).unit)),
                    Head(us).base, Head(us).power)
         ELSE FirstUnit(chars, Tail(us))

\* GreedyLBScheduler.parse_memory: bytes
GreedyParseMemory(memory_string) ==
    IF Not(memory_string) THEN Number(0, 1)
    ELSE FirstUnit(memory_string.chars, units)

\* RefineLBScheduler.parse_memory: bytes
RefineParseMemory(memory_string) ==
    IF Not(memory_string) THEN Number(0, 1)
    ELSE FirstUnit(memory_string.chars, units)

\* a parser that has not run
NoResult == [ok |-> FALSE, num |-> 0, den |-> 0, base |-> 0, power |-> 0]

\* no parser has run on the quantity
NotParsed ==
    [f \in {"parse_cpu", "parse_memory"} |-> [p \in Placers |-> NoResult]]

---------------------------------------------------------------------------
(* Initial state: an empty cluster with ready nodes, both placers about to *)
(* open their watch, the detector about to take its first sample           *)

\* a list of system namespaces that knows kube-system only
OnlyKubeSystem == {"kube-system"}

SystemNamespaces == {"kube-system", "kube-public", "kube-node-lease"}

\* the deployments of the cluster, in the order the server lists them
Deployments ==
    <<[name |-> "web", namespace |-> "default"],
      [name |-> "api", namespace |-> "prod"],
      [name |-> "dns", namespace |-> "kube-system"],
      [name |-> "proxy", namespace |-> "kube-public"]>>
DeploymentNames == {Deployments[k].name : k \in 1..Len(Deployments)}
DEFAULT_SCHEDULER == "default-scheduler"

PlacersInit ==
    /\ pods = [i \in PodIds |-> AbsentPod]
    /\ nodeUnsched = [n \in Nodes |-> IF n = NodeNames[1] THEN Null ELSE "false"]
    /\ pc = [p \in Placers |-> "subscribe"]
    /\ stream = [p \in Placers |-> <<>>]
    /\ cur = [p \in Placers |-> NoEvent]
    /\ nodes = [p \in Placers |-> <<>>]
    /\ idx = [p \in Placers |-> 0]
    /\ usages = [p \in Placers |-> <<>>]
    /\ scores = [p \in Placers |-> <<>>]
    /\ lastBind = [p \in Placers |-> NoBind]
    /\ lastError = [p \in Placers |-> "none"]
    /\ disturbed = 0
    /\ created = 0
    /\ quantity = NoQuantity
    /\ parsed = NotParsed
    /\ args = NoArgs
    /\ returned = NoReturn

\* PatternDetector.__init__
DetectorInit ==
    /\ dpc = "sample"
    /\ iteration = 0
    /\ pod_count_history = <<>>
    /\ current_scheduler = Null
    /\ current_pattern = Null
    /\ optimal_scheduler = Null
    /\ listed = <<>>
    /\ cursor = 0
    /\ switched_count = 0
    /\ patches = <<>>
    /\ rate_and_trend = NoRate
    /\ detected_pattern = Null
    /\ pod_list = NoList
    /\ applied = 0

Init ==
    /\ PlacersInit
    /\ nodeReady = [n \in Nodes |-> TRUE]
    /\ DetectorInit
    /\ deployments = [d \in DeploymentNames |-> DEFAULT_SCHEDULER]

---------------------------------------------------------------------------
(* The watch loop of a placer (watch_for_pods) *)

\* one more disturbance, while the model allows one
Disturb == disturbed < MaxDisturbed /\ disturbed' = disturbed + 1

\* an API call is answered, or raises ApiException: a disturbance
Answered(answered) == IF answered THEN UNCHANGED disturbed ELSE Disturb

\* the end of a placement attempt: schedule_pod returns, the loop reads on
EndAttempt(p, result) ==
    /\ pc' = [pc EXCEPT ![p] = "watching"]
    /\ cur' = [cur EXCEPT ![p] = NoEvent]
    /\ nodes' = [nodes EXCEPT ![p] = <<>>]
    /\ idx' = [idx EXCEPT ![p] = 0]
    /\ usages' = [usages EXCEPT ![p] = <<>>]
    /\ scores' = [scores EXCEPT ![p] = <<>>]
    /\ lastBind' = [lastBind EXCEPT ![p] = result]

\* w.stream(...): a fresh list and watch
Subscribe(p) ==
    /\ pc[p] = "subscribe"
    /\ stream' = [stream EXCEPT ![p] = InitialEvents(p)]
    /\ pc' = [pc EXCEPT ![p] = "watching"]
    /\ lastBind' = [lastBind EXCEPT ![p] = NoBind]
    /\ UNCHANGED <<parseVars, callVars, apiVars, envVars, detVars, cur, nodes, idx, usages, scores,
                   lastError>>

\* a test of the loop body that does not look at the type of the event
ShouldScheduleAnyType(ev) ==
    /\ ev.phase = "Pending"
    /\ ev.node_name = Null

\* the test of the loop body: an ADDED or MODIFIED event of a pod that is
\* Pending and has no node
ShouldSchedule(ev) ==
    /\ ev.type = "ADDED" \/ ev.type = "MODIFIED"
    /\ ev.phase = "Pending"
    /\ ev.node_name = Null

\* a loop that takes the newest event of the stream first
NextEventNewest(p) ==
    /\ pc[p] = "watching"
    /\ stream[p] # <<>>
    /\ stream' = [stream EXCEPT ![p] = SubSeq(stream[p], 1, Len(stream[p]) - 1)]
    /\ lastBind' = [lastBind EXCEPT ![p] = NoBind]
    /\ IF ShouldSchedule(stream[p][Len(stream[p])])
       THEN /\ cur' = [cur EXCEPT ![p] = stream[p][Len(stream[p])]]
            /\ pc' = [pc EXCEPT ![p] = "list_nodes"]
       ELSE UNCHANGED <<cur, pc>>
    /\ UNCHANGED <<parseVars, callVars, apiVars, envVars, detVars, nodes, idx, usages, scores,
                   lastError>>

\* the loop takes the next event of the stream
NextEvent(p) ==
    /\ pc[p] = "watching"
    /\ stream[p] # <<>>
    /\ stream' = [stream EXCEPT ![p] = Tail(stream[p])]
    /\ lastBind' = [lastBind EXCEPT ![p] = NoBind]
    /\ IF ShouldSchedule(Head(stream[p]))
       THEN /\ cur' = [cur EXCEPT ![p] = Head(stream[p])]
            /\ pc' = [pc EXCEPT ![p] = "list_nodes"]
       ELSE UNCHANGED <<cur, pc>>
    /\ UNCHANGED <<parseVars, callVars, apiVars, envVars, detVars, nodes, idx, usages, scores,
                   lastError>>

\* ApiException with status 410 while reading the stream
WatchExpired(p) ==
    /\ pc[p] = "watching"
    /\ Disturb
    /\ stream' = [stream EXCEPT ![p] = <<>>]
    /\ pc' = [pc EXCEPT ![p] = "expired"]
    /\ lastBind' = [lastBind EXCEPT ![p] = NoBind]
    /\ lastError' = [lastError EXCEPT ![p] = "expired"]
    /\ UNCHANGED <<parseVars, callVars, apiVars, created, detVars, cur, nodes, idx, usages, scores>>

\* any other exception while reading the stream: log, then time.sleep(5)
WatchFailed(p) ==
    /\ pc[p] = "watching"
    /\ Disturb
    /\ stream' = [stream EXCEPT ![p] = <<>>]
    /\ pc' = [pc EXCEPT ![p] = "backoff"]
    /\ lastBind' = [lastBind EXCEPT ![p] = NoBind]
    /\ lastError' = [lastError EXCEPT ![p] = "failed"]
    /\ UNCHANGED <<parseVars, callVars, apiVars, created, detVars, cur, nodes, idx, usages, scores>>

\* an exception that schedule_pod does not catch (list_node or the binding
\* call raising something other than ApiException) unwinds the attempt and
\* the for loop, and reaches the last handler of the loop: log, time.sleep(5)
AttemptRaised(p) ==
    /\ pc[p] \in {"list_nodes", "bind"}
    /\ Disturb
    /\ stream' = [stream EXCEPT ![p] = <<>>]
    /\ pc' = [pc EXCEPT ![p] = "backoff"]
    /\ cur' = [cur EXCEPT ![p] = NoEvent]
    /\ nodes' = [nodes EXCEPT ![p] = <<>>]
    /\ idx' = [idx EXCEPT ![p] = 0]
    /\ usages' = [usages EXCEPT ![p] = <<>>]
    /\ scores' = [scores EXCEPT ![p] = <<>>]
    /\ lastBind' = [lastBind EXCEPT ![p] = NoBind]
    /\ lastError' = [lastError EXCEPT ![p] = "failed"]
    /\ UNCHANGED <<parseVars, callVars, apiVars, created, detVars>>

\* RefineLB's select_best_node starts with get_pod_resource_requests, which
\* raises ValueError on a quantity it cannot parse; nothing catches it before
\* the last handler of the watch loop: log, time.sleep(5)
RequestRaised ==
    LET p == REFINE_LB
    IN /\ pc[p] = "usage"
       /\ Unparsable(pods[cur[p].pod].spec)
       /\ stream' = [stream EXCEPT ![p] = <<>>]
       /\ pc' = [pc EXCEPT ![p] = "backoff"]
       /\ cur' = [cur EXCEPT ![p] = NoEvent]
       /\ nodes' = [nodes EXCEPT ![p] = <<>>]
       /\ idx' = [idx EXCEPT ![p] = 0]
       /\ usages' = [usages EXCEPT ![p] = <<>>]
       /\ scores' = [scores EXCEPT ![p] = <<>>]
       /\ lastBind' = [lastBind EXCEPT ![p] = NoBind]
       /\ lastError' = [lastError EXCEPT ![p] = "failed"]
       /\ UNCHANGED <<parseVars, callVars, apiVars, envVars, detVars>>

\* the server closes the stream and the for loop ends with no exception: the
\* while loop opens the stream again
StreamEnded(p) ==
    /\ pc[p] = "watching"
    /\ stream[p] = <<>>
    /\ Disturb
    /\ pc' = [pc EXCEPT ![p] = "subscribe"]
    /\ lastBind' = [lastBind EXCEPT ![p] = NoBind]
    /\ UNCHANGED <<parseVars, callVars, apiVars, created, detVars, stream, cur, nodes, idx, usages,
                   scores, lastError>>

\* the handler of status 410: log a warning and continue, with no sleep
Restart(p) ==
    /\ pc[p] = "expired"
    /\ pc' = [pc EXCEPT ![p] = "subscribe"]
    /\ UNCHANGED <<parseVars, callVars, apiVars, envVars, detVars, stream, cur, nodes, idx, usages,
                   scores, lastBind, lastError>>

\* a handler that leaves the loop after the sleep
BackoffAndStop(p) ==
    /\ pc[p] = "backoff"
    /\ pc' = [pc EXCEPT ![p] = "stopped"]
    /\ UNCHANGED <<parseVars, callVars, apiVars, envVars, detVars, stream, cur, nodes, idx, usages,
                   scores, lastBind, lastError>>

\* the sleep is over: back to the top of the loop
Backoff(p) ==
    /\ pc[p] = "backoff"
    /\ pc' = [pc EXCEPT ![p] = "subscribe"]
    /\ UNCHANGED <<parseVars, callVars, apiVars, envVars, detVars, stream, cur, nodes, idx, usages,
                   scores, lastBind, lastError>>

---------------------------------------------------------------------------
(* schedule_pod *)

\* nodes = self.get_schedulable_nodes(); no node: return False
ListNodes(p) ==
    /\ pc[p] = "list_nodes"
    /\ \E answered \in BOOLEAN :
         /\ Answered(answered)
         /\ \E kept \in {GetSchedulableNodes(answered)} :
              IF kept = <<>>
              THEN EndAttempt(p, NoNode(cur[p].pod))
              ELSE /\ nodes' = [nodes EXCEPT ![p] = kept]
                   /\ idx' = [idx EXCEPT ![p] = 1]
                   /\ pc' = [pc EXCEPT ![p] =
                                IF p = GREEDY_LB THEN "score" ELSE "usage"]
                   /\ UNCHANGED <<cur, usages, scores, lastBind>>
    /\ UNCHANGED <<parseVars, callVars, apiVars, created, detVars, stream, lastError>>

\* GreedyLB, one turn of the loop of select_best_node: score the next node
GreedyScore ==
    LET p == GREEDY_LB
        n == nodes[p][idx[p]].name
    IN /\ pc[p] = "score"
       /\ idx[p] <= Len(nodes[p])
       /\ \E answered \in BOOLEAN :
            /\ Answered(answered)
            /\ \E scored \in {Append(scores[p],
                                     [node |-> n,
                                      score |-> CalculateNodeScore(n, answered),
                                      read |-> answered])} :
                 IF /\ idx[p] = Len(nodes[p])
                    /\ GreedyChoice(scored, pods[cur[p].pod].spec) = Null
                 THEN EndAttempt(p, NoNode(cur[p].pod))
                 ELSE /\ scores' = [scores EXCEPT ![p] = scored]
                      /\ idx' = [idx EXCEPT ![p] = idx[p] + 1]
                      /\ pc' = [pc EXCEPT ![p] =
                                   IF idx[p] = Len(nodes[p]) THEN "bind" ELSE "score"]
                      /\ UNCHANGED <<cur, nodes, usages, lastBind>>
       /\ UNCHANGED <<parseVars, callVars, apiVars, created, detVars, stream, lastError>>

\* RefineLB, first loop of select_best_node: the usage of the next node, kept
\* when it could be read; no usage at all: return None
RefineUsage ==
    LET p == REFINE_LB
        n == nodes[p][idx[p]].name
    IN /\ pc[p] = "usage"
       /\ ~ Unparsable(pods[cur[p].pod].spec)
       /\ idx[p] <= Len(nodes[p])
       /\ \E answered \in BOOLEAN :
            /\ Answered(answered)
            /\ \E all \in {IF answered
                           THEN Append(usages[p], GetNodeResourceUsage(n, answered))
                           ELSE usages[p]} :
                 IF idx[p] < Len(nodes[p])
                 THEN /\ usages' = [usages EXCEPT ![p] = all]
                      /\ idx' = [idx EXCEPT ![p] = idx[p] + 1]
                      /\ UNCHANGED <<pc, cur, nodes, scores, lastBind>>
                 ELSE IF all = <<>>
                 THEN EndAttempt(p, NoNode(cur[p].pod))
                 ELSE /\ usages' = [usages EXCEPT ![p] = all]
                      /\ idx' = [idx EXCEPT ![p] = 1]
                      /\ pc' = [pc EXCEPT ![p] = "score"]
                      /\ UNCHANGED <<cur, nodes, scores, lastBind>>
       /\ UNCHANGED <<parseVars, callVars, apiVars, created, detVars, stream, lastError>>

\* RefineLB, second loop of select_best_node: calculate_refined_score reads
\* the usage of the node again and scores it
RefineScore ==
    LET p == REFINE_LB
        n == nodes[p][idx[p]].name
    IN /\ pc[p] = "score"
       /\ idx[p] <= Len(nodes[p])
       /\ \E answered \in BOOLEAN :
            /\ Answered(answered)
            /\ \E usage \in {GetNodeResourceUsage(n, answered)},
                  request \in {GetPodResourceRequests(pods[cur[p].pod].spec)} :
                 \E scored \in {Append(scores[p],
                     [node |-> n,
                      score |-> CalculateRefinedScore(usage, request, usages[p]),
                      read |-> answered,
                      cpu_available |-> usage.cpu_available,
                      memory_available |-> usage.memory_available])} :
                   IF idx[p] = Len(nodes[p]) /\ RefineSelect(scored) = Null
                   THEN EndAttempt(p, NoNode(cur[p].pod))
                   ELSE /\ scores' = [scores EXCEPT ![p] = scored]
                        /\ idx' = [idx EXCEPT ![p] = idx[p] + 1]
                        /\ pc' = [pc EXCEPT ![p] =
                                     IF idx[p] = Len(nodes[p]) THEN "bind"
                                     ELSE "score"]
                        /\ UNCHANGED <<cur, nodes, usages, lastBind>>
       /\ UNCHANGED <<parseVars, callVars, apiVars, created, detVars, stream, lastError>>

\* the node the attempt of placer p has selected
Selected(p) ==
    IF p = GREEDY_LB THEN GreedyChoice(scores[p], pods[cur[p].pod].spec)
    ELSE RefineSelect(scores[p])

\* a bind that writes the node into the pod whatever the pod holds
BindPodToNodeForced(p) ==
    /\ pc[p] = "bind"
    /\ \E i \in {cur[p].pod}, target \in {Selected(p)} :
         /\ pods' = [pods EXCEPT ![i].node_name = target]
         /\ EndAttempt(p, [pod |-> i, node |-> target, result |-> "accepted"])
    /\ UNCHANGED <<parseVars, callVars, stream, nodeReady, nodeUnsched, envVars, detVars, lastError>>

\* a bind whose refusal reaches the watch loop as an exception
BindPodToNodeOrRaise(p) ==
    /\ pc[p] = "bind"
    /\ \E i \in {cur[p].pod}, target \in {Selected(p)}, answered \in BOOLEAN :
         /\ Answered(answered)
         /\ IF answered /\ BindingAccepted(i)
            THEN /\ pods' = [pods EXCEPT ![i].node_name = target]
                 /\ stream' = [stream EXCEPT ![p] =
                                  Append(stream[p], Event("DELETED", i, pods'[i]))]
                 /\ EndAttempt(p, [pod |-> i, node |-> target,
                                   result |-> "accepted"])
                 /\ UNCHANGED lastError
            ELSE /\ pc' = [pc EXCEPT ![p] = "backoff"]
                 /\ stream' = [stream EXCEPT ![p] = <<>>]
                 /\ lastBind' = [lastBind EXCEPT ![p] =
                                    [pod |-> i, node |-> target,
                                     result |-> "rejected"]]
                 /\ lastError' = [lastError EXCEPT ![p] = "failed"]
                 /\ UNCHANGED <<pods, cur, nodes, idx, usages, scores>>
    /\ UNCHANGED <<parseVars, callVars, nodeReady, nodeUnsched, created, detVars>>

\* bind_pod_to_node: create the binding; True when the server accepts it,
\* False on ApiException: the pod has a node already ("rejected"), or the
\* call fails for another reason ("failed")
BindPodToNode(p) ==
    /\ pc[p] = "bind"
    /\ \E i \in {cur[p].pod}, target \in {Selected(p)}, answered \in BOOLEAN :
         /\ Answered(answered)
         /\ IF answered /\ BindingAccepted(i)
            THEN /\ pods' = [pods EXCEPT ![i].node_name = target]
                 /\ stream' = [stream EXCEPT ![p] =
                                  Append(stream[p], Event("DELETED", i, pods'[i]))]
                 /\ EndAttempt(p, [pod |-> i, node |-> target,
                                   result |-> "accepted"])
            ELSE /\ EndAttempt(p, [pod |-> i, node |-> target,
                                   result |-> IF answered THEN "rejected"
                                              ELSE "failed"])
                 /\ UNCHANGED <<pods, stream>>
    /\ UNCHANGED <<parseVars, callVars, nodeReady, nodeUnsched, created, detVars, lastError>>

---------------------------------------------------------------------------
(* The orchestrator and its users: what happens to pods and nodes outside  *)
(* the placers                                                             *)

\* a pod is submitted, declaring one of the two placers
CreatePod(s, sp) ==
    LET i == created + 1
        pod == [phase |-> "Pending", node_name |-> Null,
                scheduler_name |-> s, spec |-> sp]
    IN /\ created < MaxPods
       /\ created' = i
       /\ pods' = [pods EXCEPT ![i] = pod]
       /\ stream' = Push(s, Event("ADDED", i, pod))
       /\ UNCHANGED <<parseVars, callVars, nodeReady, nodeUnsched, disturbed, detVars, pc, cur, nodes,
                      idx, usages, scores, lastBind, lastError>>

\* an update of a pod that still matches its placer's selector: the server
\* sends the pod again, as a MODIFIED event
ModifyPod(i) ==
    LET s == pods[i].scheduler_name
    IN /\ pods[i].phase = "Pending"
       /\ pods[i].node_name = Null
       /\ StreamOpen(s)
       /\ Disturb
       /\ stream' = Push(s, Event("MODIFIED", i, pods[i]))
       /\ UNCHANGED <<parseVars, callVars, apiVars, created, detVars, pc, cur, nodes, idx, usages,
                      scores, lastBind, lastError>>

\* a pod fails before it has a node (its deadline passes, say)
FailPod(i) ==
    LET s == pods[i].scheduler_name
        pod == [pods[i] EXCEPT !.phase = "Failed"]
    IN /\ pods[i].phase = "Pending"
       /\ pods[i].node_name = Null
       /\ Disturb
       /\ pods' = [pods EXCEPT ![i] = pod]
       /\ stream' = Push(s, Event("MODIFIED", i, pod))
       /\ UNCHANGED <<parseVars, callVars, nodeReady, nodeUnsched, created, detVars, pc, cur, nodes,
                      idx, usages, scores, lastBind, lastError>>

\* a user deletes a pod that has no node yet: the server sends the pod a
\* last time, as a DELETED event
DeletePod(i) ==
    LET s == pods[i].scheduler_name
    IN /\ pods[i].phase = "Pending"
       /\ pods[i].node_name = Null
       /\ Disturb
       /\ pods' = [pods EXCEPT ![i].phase = "Absent"]
       /\ stream' = Push(s, Event("DELETED", i, pods[i]))
       /\ UNCHANGED <<parseVars, callVars, nodeReady, nodeUnsched, created, detVars, pc, cur, nodes,
                      idx, usages, scores, lastBind, lastError>>

\* the node agent runs a bound pod to completion.  A placer treats a bound
\* pod that is Pending and one that is Running alike (both are non-terminal),
\* so the phase Running in between is not a state of its own.
RunPod(i) ==
    /\ pods[i].phase = "Pending"
    /\ pods[i].node_name # Null
    /\ pods' = [pods EXCEPT ![i].phase = "Succeeded"]
    /\ UNCHANGED <<parseVars, callVars, nodeReady, nodeUnsched, envVars, detVars, placerVars>>

\* the Ready condition of a node changes
SetReady(n, b) ==
    /\ nodeReady[n] # b
    /\ Disturb
    /\ nodeReady' = [nodeReady EXCEPT ![n] = b]
    /\ UNCHANGED <<parseVars, callVars, pods, nodeUnsched, created, detVars, placerVars>>

\* an administrator cordons a node, or uncordons a cordoned one
SetUnschedulable(n, v) ==
    /\ nodeUnsched[n] = (IF v = "true" THEN nodeUnsched[n] ELSE "true")
    /\ nodeUnsched[n] # v
    /\ Disturb
    /\ nodeUnsched' = [nodeUnsched EXCEPT ![n] = v]
    /\ UNCHANGED <<parseVars, callVars, pods, nodeReady, created, detVars, placerVars>>

---------------------------------------------------------------------------
(* The system of the two placers and the orchestrator *)

Next ==
    \/ \E p \in Placers : Subscribe(p)
    \/ \E p \in Placers : NextEvent(p)
    \/ \E p \in Placers : WatchExpired(p)
    \/ \E p \in Placers : WatchFailed(p)
    \/ \E p \in Placers : StreamEnded(p)
    \/ \E p \in Placers : AttemptRaised(p)
    \/ \E p \in Placers : Restart(p)
    \/ \E p \in Placers : Backoff(p)
    \/ \E p \in Placers : ListNodes(p)
    \/ GreedyScore
    \/ RefineUsage
    \/ RefineScore
    \/ \E p \in Placers : BindPodToNode(p)
    \/ \E s \in Placers, sp \in SubmittedSpecs : CreatePod(s, sp)
    \/ \E i \in PodIds : ModifyPod(i)
    \/ \E i \in PodIds : FailPod(i)
    \/ \E i \in PodIds : DeletePod(i)
    \/ \E i \in PodIds : RunPod(i)
    \/ \E n \in Nodes, b \in BOOLEAN : SetReady(n, b)
    \/ \E n \in Nodes, v \in {"true", "false"} : SetUnschedulable(n, v)

Spec == Init /\ [][Next]_vars

\* Each placer is a running process: the step its loop is at is taken.  The
\* orchestrator and the faults of the API are under no such obligation.
PlacerStep(p) ==
    \/ Subscribe(p)
    \/ NextEvent(p)
    \/ Restart(p)
    \/ Backoff(p)
    \/ ListNodes(p)
    \/ (p = GREEDY_LB /\ GreedyScore)
    \/ (p = REFINE_LB /\ (RefineUsage \/ RefineScore))
    \/ BindPodToNode(p)

\* a cluster in which any of the nodes may not be ready when the placers start
InitAnyReadiness ==
    /\ PlacersInit
    /\ nodeReady \in [Nodes -> BOOLEAN]
    /\ DetectorInit
    /\ deployments = [d \in DeploymentNames |-> DEFAULT_SCHEDULER]

FairSpec ==
    /\ InitAnyReadiness
    /\ [][Next]_vars
    /\ \A p \in Placers : WF_vars(PlacerStep(p))

\* the two placers and the orchestrator, with pods of differing requests
\* among those submitted to GreedyLB
RequestsNext ==
    \/ Next
    \/ \E sp \in {"none", "memory"} : CreatePod(GREEDY_LB, sp)

RequestsSpec == Init /\ [][RequestsNext]_vars

\* the two placers and the orchestrator, with pods among those submitted to
\* RefineLB whose requests cannot be parsed
PoisonNext ==
    \/ Next
    \/ CreatePod(REFINE_LB, "unparsable")
    \/ RequestRaised

PoisonSpec ==
    /\ Init
    /\ [][PoisonNext]_vars
    /\ \A p \in Placers : WF_vars(PlacerStep(p))
    /\ WF_vars(RequestRaised)

---------------------------------------------------------------------------
(* The pattern detector: its pure functions *)

STABLE == "stable"
LINEAR == "linear"
EXPONENTIAL == "exponential"

history_window == 6
stable_threshold == 10
linear_threshold == 30

\* the kinds of pods a pod list can hold, by namespace and phase
PodKinds ==
    <<[namespace |-> "default", phase |-> "Running"],
      [namespace |-> "default", phase |-> "Pending"],
      [namespace |-> "default", phase |-> "Succeeded"],
      [namespace |-> "kube-system", phase |-> "Running"],
      [namespace |-> "kube-public", phase |-> "Pending"],
      [namespace |-> "kube-node-lease", phase |-> "Running"]>>

\* list_pod_for_all_namespaces: how many pods of each kind the list holds
PodListings == [1..Len(PodKinds) -> 0..MaxPerKind]

\* the largest sample the listings give
MaxSample == 2 * MaxPerKind

\* get_active_pod_count: the pods outside the system namespaces that are
\* Running or Pending; 0 when the list raises ApiException
GetActivePodCount(listing, answered) ==
    IF ~ answered THEN 0
    ELSE SeqSum([k \in 1..Len(PodKinds) |->
                    IF /\ PodKinds[k].namespace \notin SystemNamespaces
                       /\ PodKinds[k].phase \in {"Running", "Pending"}
                    THEN listing[k] ELSE 0])

\* an append that never evicts
AppendUnbounded(history, pod_count) == Append(history, pod_count)

\* deque(maxlen=history_window).append: at capacity the oldest sample goes
AppendSample(history, pod_count) ==
    IF Len(history) >= history_window
    THEN Append(Tail(history), pod_count)
    ELSE Append(history, pod_count)

\* the steps of the window whose earlier sample is positive
RatedSteps(history) ==
    SelectSeq([k \in 1..(Len(history) - 1) |-> k], LAMBDA k : history[k] > 0)

\* a rate that is always the change from the oldest to the newest sample
SimpleGrowthRate(history) ==
    IF history[1] = 0 THEN [num |-> 0, den |-> 1, trend |-> "no_pods"]
    ELSE [num |-> (history[Len(history)] - history[1]) * 100,
          den |-> history[1], trend |-> "simple"]

\* a rate that takes a window starting at zero for one with no pods
NoStartupGrowthRate(history) ==
    IF history[1] = 0 THEN [num |-> 0, den |-> 1, trend |-> "no_pods"]
    ELSE [num |-> (history[Len(history)] - history[1]) * 100,
          den |-> history[1],
          trend |-> IF Len(history) >= 3 THEN "calculated" ELSE "simple"]

\* calculate_growth_rate: the rate in percent, as the fraction num / den
CalculateGrowthRate(history) ==
    LET oldest == history[1]
        newest == history[Len(history)]
        steps == RatedSteps(history)
        \* the common denominator of the rates of the steps
        prevs == SeqProduct([k \in 1..Len(steps) |-> history[steps[k]]])
    IN IF Len(history) < 2
       THEN [num |-> 0, den |-> 1, trend |-> "insufficient_data"]
       ELSE IF oldest = 0
            THEN IF newest > 0 THEN [num |-> 100, den |-> 1, trend |-> "startup"]
                 ELSE [num |-> 0, den |-> 1, trend |-> "no_pods"]
       ELSE IF Len(history) >= 3 /\ steps # <<>>
            THEN [num |-> SeqSum([k \in 1..Len(steps) |->
                                    (history[steps[k] + 1] - history[steps[k]]) * 100
                                    * (prevs \div history[steps[k]])]),
                  den |-> prevs * Len(steps),
                  trend |-> "calculated"]
       ELSE [num |-> (newest - oldest) * 100, den |-> oldest, trend |-> "simple"]

\* a classification on the signed rate
DetectPatternSigned(growth_rate) ==
    IF growth_rate.num < stable_threshold * growth_rate.den THEN STABLE
    ELSE IF growth_rate.num < linear_threshold * growth_rate.den THEN LINEAR
    ELSE EXPONENTIAL

\* detect_pattern
DetectPattern(growth_rate) ==
    IF Abs(growth_rate.num) < stable_threshold * growth_rate.den THEN STABLE
    ELSE IF Abs(growth_rate.num) < linear_threshold * growth_rate.den THEN LINEAR
    ELSE EXPONENTIAL

\* a routing rule that knows the greedy placer only
DetermineAlwaysGreedy(pattern) == GREEDY_LB

\* a routing rule with the two placers exchanged
DetermineInverted(pattern) ==
    IF pattern \in {STABLE, LINEAR} THEN REFINE_LB ELSE GREEDY_LB

\* determine_optimal_scheduler
DetermineOptimalScheduler(pattern) ==
    IF pattern \in {STABLE, LINEAR} THEN GREEDY_LB ELSE REFINE_LB

\* the pattern and the placer the decision step computes from the window
PatternOf(history) == DetectPattern(CalculateGrowthRate(history))

\* list_deployment_for_all_namespaces
ListDeployment ==
    [k \in 1..Len(Deployments) |->
        [name |-> Deployments[k].name,
         namespace |-> Deployments[k].namespace,
         scheduler_name |-> deployments[Deployments[k].name]]]

\* a test that takes every deployment for one to update
NeedsUpdateAlways(deployment, target_scheduler) == TRUE

\* "Only update if different"
NeedsUpdate(deployment, target_scheduler) ==
    deployment.scheduler_name # target_scheduler

\* a test that lets the decision step run on any window
EnoughSamplesAlways(history) == TRUE

\* "Need at least 2 data points to detect pattern"
EnoughSamples(history) == ~ (Len(history) < 2)

\* a test that wants at least one deployment switched
SwitchedSome(switched) == switched > 0

\* "if switched >= 0": the test that guards the update of the routing state
Switched(switched) == switched >= 0

---------------------------------------------------------------------------
(* The pattern detector: monitor_loop and switch_scheduler *)

\* the sample is appended to the window; with fewer than two samples, sleep
\* and start over
AppendCount(pod_count) ==
    /\ pod_count_history' = AppendSample(pod_count_history, pod_count)
    /\ dpc' = IF EnoughSamples(pod_count_history') THEN "decide" ELSE "sample"
    /\ UNCHANGED <<deployments, current_scheduler, current_pattern,
                   optimal_scheduler, listed, cursor, switched_count, patches,
                   rate_and_trend, detected_pattern, applied>>
    /\ UNCHANGED <<apiVars, envVars, placerVars>>

\* the top of an iteration, given the count of the active pods
TakeSample(pod_count) ==
    /\ dpc = "sample"
    /\ iteration' = iteration + 1
    /\ AppendCount(pod_count)
    /\ UNCHANGED <<pod_list, parseVars, callVars>>

\* the top of an iteration: get_active_pod_count lists the pods of all
\* namespaces; the list is answered, or raises ApiException
ListPods ==
    /\ dpc = "sample"
    /\ iteration < MaxIterations
    /\ iteration' = iteration + 1
    /\ \E listing \in PodListings, answered \in BOOLEAN :
          pod_list' = IF answered THEN [answered |-> TRUE, items |-> listing]
                      ELSE NoList
    /\ dpc' = "count"
    /\ UNCHANGED <<deployments, pod_count_history, current_scheduler,
                   current_pattern, optimal_scheduler, listed, cursor,
                   switched_count, patches, rate_and_trend, detected_pattern,
                   applied>>
    /\ UNCHANGED <<parseVars, callVars, apiVars, envVars, placerVars>>

\* get_active_pod_count returns the count of the active pods of the list, or
\* 0 from its exception handler, and monitor_loop appends it
CountPods ==
    /\ dpc = "count"
    /\ AppendCount(GetActivePodCount(pod_list.items, pod_list.answered))
    /\ pod_list' = NoList
    /\ UNCHANGED <<iteration, parseVars, callVars>>

\* the routing state after switch_scheduler has returned `switched`
RecordSwitch(switched) ==
    IF Switched(switched)
    THEN /\ current_scheduler' = optimal_scheduler'
         /\ current_pattern' = PatternOf(pod_count_history)
    ELSE UNCHANGED <<current_scheduler, current_pattern>>

\* a decision that reconciles the deployments in every iteration
DecideAndReconcile ==
    /\ dpc = "decide"
    /\ rate_and_trend' = CalculateGrowthRate(pod_count_history)
    /\ detected_pattern' = DetectPattern(rate_and_trend')
    /\ optimal_scheduler' = DetermineOptimalScheduler(detected_pattern')
    /\ patches' = <<>>
    /\ listed' = ListDeployment
    /\ cursor' = 1
    /\ switched_count' = 0
    /\ dpc' = "switch"
    /\ UNCHANGED <<current_scheduler, current_pattern>>
    /\ UNCHANGED <<deployments, iteration, pod_count_history, applied>>
    /\ UNCHANGED <<parseVars, callVars, pod_list, apiVars, envVars, placerVars>>

\* the decision step: growth rate, pattern, optimal placer; when the placer
\* differs from the current one, switch_scheduler is entered and lists the
\* deployments (a list that raises ApiException makes it return 0)
Decide ==
    /\ dpc = "decide"
    /\ rate_and_trend' = CalculateGrowthRate(pod_count_history)
    /\ detected_pattern' = DetectPattern(rate_and_trend')
    /\ optimal_scheduler' = DetermineOptimalScheduler(detected_pattern')
    /\ patches' = <<>>
    /\ IF optimal_scheduler' # current_scheduler
       THEN \E answered \in BOOLEAN :
              IF answered
              THEN /\ listed' = ListDeployment
                   /\ cursor' = 1
                   /\ switched_count' = 0
                   /\ dpc' = "switch"
                   /\ UNCHANGED <<current_scheduler, current_pattern>>
              ELSE /\ RecordSwitch(0)
                   /\ dpc' = "report"
                   /\ UNCHANGED <<listed, cursor, switched_count>>
       ELSE /\ dpc' = "report"
            /\ UNCHANGED <<current_scheduler, current_pattern, listed, cursor,
                           switched_count>>
    /\ UNCHANGED <<deployments, iteration, pod_count_history, applied>>
    /\ UNCHANGED <<parseVars, callVars, pod_list, apiVars, envVars, placerVars>>

\* one turn of the loop over the deployments: a system namespace is skipped,
\* a deployment that declares another scheduler is patched, and a patch that
\* raises ApiException is logged
PatchDeployment ==
    /\ dpc = "switch"
    /\ cursor <= Len(listed)
    /\ cursor' = cursor + 1
    /\ LET deployment == listed[cursor]
       IN IF /\ deployment.namespace \notin SystemNamespaces
             /\ NeedsUpdate(deployment, optimal_scheduler)
          THEN \E answered \in BOOLEAN :
                 /\ patches' = Append(patches, [name |-> deployment.name,
                                                ok |-> answered])
                 /\ IF answered
                    THEN /\ deployments' = [deployments EXCEPT
                                               ![deployment.name] = optimal_scheduler]
                         /\ switched_count' = switched_count + 1
                    ELSE UNCHANGED <<deployments, switched_count>>
          ELSE UNCHANGED <<deployments, switched_count, patches>>
    /\ UNCHANGED <<dpc, iteration, pod_count_history, current_scheduler,
                   current_pattern, optimal_scheduler, listed, rate_and_trend,
                   detected_pattern, applied>>
    /\ UNCHANGED <<parseVars, callVars, pod_list, apiVars, envVars, placerVars>>

\* switch_scheduler returns switched_count; monitor_loop records the switch
FinishSwitch ==
    /\ dpc = "switch"
    /\ cursor > Len(listed)
    /\ optimal_scheduler' = optimal_scheduler
    /\ RecordSwitch(switched_count)
    /\ dpc' = "report"
    /\ listed' = <<>>
    /\ cursor' = 0
    /\ switched_count' = 0
    /\ UNCHANGED <<deployments, iteration, pod_count_history, patches,
                   rate_and_trend, detected_pattern, applied>>
    /\ UNCHANGED <<parseVars, callVars, pod_list, apiVars, envVars, placerVars>>

\* the report is logged, the loop sleeps monitor_interval and starts over
Report ==
    /\ dpc = "report"
    /\ dpc' = "sample"
    /\ UNCHANGED <<deployments, iteration, pod_count_history, current_scheduler,
                   current_pattern, optimal_scheduler, listed, cursor,
                   switched_count, patches, rate_and_trend, detected_pattern,
                   applied>>
    /\ UNCHANGED <<parseVars, callVars, pod_list, apiVars, envVars, placerVars>>

\* a handler that starts over with an empty window
IterationRaisedAndCleared ==
    /\ dpc \in {"count", "switch"}
    /\ Disturb
    /\ dpc' = "sample"
    /\ pod_count_history' = <<>>
    /\ pod_list' = NoList
    /\ listed' = <<>>
    /\ cursor' = 0
    /\ switched_count' = 0
    /\ UNCHANGED <<deployments, iteration, current_scheduler, current_pattern,
                   optimal_scheduler, patches, rate_and_trend, detected_pattern,
                   applied>>
    /\ UNCHANGED <<parseVars, callVars, apiVars, created, placerVars>>

\* an exception other than ApiException raised by the pod list or by a patch
\* call unwinds the iteration and reaches the last handler of monitor_loop:
\* log, time.sleep(monitor_interval), next iteration
IterationRaised ==
    /\ dpc \in {"count", "switch"}
    /\ Disturb
    /\ dpc' = "sample"
    /\ pod_list' = NoList
    /\ listed' = <<>>
    /\ cursor' = 0
    /\ switched_count' = 0
    /\ UNCHANGED <<deployments, iteration, pod_count_history, current_scheduler,
                   current_pattern, optimal_scheduler, patches, rate_and_trend,
                   detected_pattern, applied>>
    /\ UNCHANGED <<parseVars, callVars, apiVars, created, placerVars>>

\* a cluster whose user deployments declare any of the schedulers
DetectorSpecInit ==
    /\ PlacersInit
    /\ nodeReady = [n \in Nodes |-> TRUE]
    /\ DetectorInit
    /\ deployments \in [DeploymentNames -> {GREEDY_LB, REFINE_LB, DEFAULT_SCHEDULER}]
    /\ deployments["dns"] = DEFAULT_SCHEDULER
    /\ deployments["proxy"] = DEFAULT_SCHEDULER

DetectorNext ==
    \/ ListPods
    \/ CountPods
    \/ Decide
    \/ PatchDeployment
    \/ FinishSwitch
    \/ Report
    \/ IterationRaised

DetectorSpec == DetectorSpecInit /\ [][DetectorNext]_vars

\* the decision step is taken again, on the window as it is
DecideAgain ==
    /\ dpc = "report"
    /\ applied = 0
    /\ applied' = 1
    /\ dpc' = "decide"
    /\ UNCHANGED <<deployments, iteration, pod_count_history, current_scheduler,
                   current_pattern, optimal_scheduler, listed, cursor,
                   switched_count, patches, rate_and_trend, detected_pattern>>
    /\ UNCHANGED <<parseVars, callVars, pod_list, apiVars, envVars, placerVars>>

\* between two decisions a user edits a deployment outside the system
\* namespaces, or replaces it by a new one of the same name: its pod
\* template declares another scheduler from then on
EditDeployment(d, s) ==
    /\ dpc = "report"
    /\ applied = 0
    /\ deployments[d] # s
    /\ Disturb
    /\ deployments' = [deployments EXCEPT ![d] = s]
    /\ UNCHANGED <<dpc, iteration, pod_count_history, current_scheduler,
                   current_pattern, optimal_scheduler, listed, cursor,
                   switched_count, patches, rate_and_trend, detected_pattern,
                   pod_list, applied>>
    /\ UNCHANGED <<parseVars, callVars, apiVars, created, placerVars>>

\* windows of two samples or more
Windows ==
    UNION {[1..n -> 0..MaxSample] : n \in 2..history_window}

\* the windows of the examples given for the growth rate
ExampleWindows ==
    {<<2, 3, 4>>, <<0, 5>>, <<0, 3, 5>>, <<3, 0, 5>>, <<3, 3>>,
     <<5, 5, 5, 5, 10, 20>>, <<20, 20, 20, 20, 20, 20>>}

\* the detector at its decision step, with any window, any routing state it
\* can have recorded and any deployments
DecisionInit ==
    /\ PlacersInit
    /\ nodeReady = [n \in Nodes |-> TRUE]
    /\ dpc = "decide"
    /\ iteration = 0
    /\ pod_count_history \in Windows \cup ExampleWindows
    /\ current_pattern \in {Null, STABLE, LINEAR, EXPONENTIAL}
    /\ current_scheduler = IF current_pattern = Null THEN Null
                           ELSE DetermineOptimalScheduler(current_pattern)
    /\ optimal_scheduler = current_scheduler
    /\ listed = <<>>
    /\ cursor = 0
    /\ switched_count = 0
    /\ patches = <<>>
    /\ rate_and_trend = NoRate
    /\ detected_pattern = Null
    /\ pod_list = NoList
    /\ applied = 0
    /\ deployments \in [DeploymentNames -> {GREEDY_LB, REFINE_LB, DEFAULT_SCHEDULER}]
    /\ deployments["dns"] = DEFAULT_SCHEDULER
    /\ deployments["proxy"] = DEFAULT_SCHEDULER

DecisionNext ==
    \/ Decide
    \/ PatchDeployment
    \/ FinishSwitch
    \/ DecideAgain
    \/ \E k \in 1..Len(Deployments), s \in Placers :
          /\ Deployments[k].namespace \notin SystemNamespaces
          /\ EditDeployment(Deployments[k].name, s)

DecisionSpec == DecisionInit /\ [][DecisionNext]_vars

\* the samples of the transition scenario: the window fills to
\* [5,5,5,5,10,20], then samples of 20 arrive until it is [20,20,20,20,20,20]
ScenarioSamples == <<5, 5, 5, 5, 10, 20, 20, 20, 20, 20, 20>>

\* the count of the active pods is the next sample of the scenario
ScenarioSample ==
    /\ iteration < Len(ScenarioSamples)
    /\ TakeSample(ScenarioSamples[iteration + 1])

ScenarioNext ==
    \/ ScenarioSample
    \/ Decide
    \/ PatchDeployment
    \/ FinishSwitch
    \/ Report

\* the detector started on a cluster whose user deployments declare any of
\* the schedulers, fed with the samples of the scenario
ScenarioSpec == DetectorSpecInit /\ [][ScenarioNext]_vars

\* growth rates from -MaxRate to MaxRate percent, in steps of one and of one
\* thousandth
Rates ==
    {[num |-> n, den |-> 1, trend |-> "calculated"] : n \in (-MaxRate)..MaxRate}
    \cup {[num |-> n, den |-> 1000, trend |-> "calculated"] :
             n \in (-MaxRate * 1000)..(MaxRate * 1000)}

\* the detector about to classify a growth rate, which may be any of Rates
ClassifyInit ==
    /\ PlacersInit
    /\ nodeReady = [n \in Nodes |-> TRUE]
    /\ DetectorInit
    /\ deployments = [d \in DeploymentNames |-> DEFAULT_SCHEDULER]

\* calculate_growth_rate has returned some rate
GrowthRateReturned ==
    /\ dpc = "sample"
    /\ rate_and_trend' \in Rates
    /\ dpc' = "classify"
    /\ UNCHANGED <<deployments, iteration, pod_count_history, current_scheduler,
                   current_pattern, optimal_scheduler, listed, cursor,
                   switched_count, patches, detected_pattern, applied>>
    /\ UNCHANGED <<parseVars, callVars, pod_list, apiVars, envVars, placerVars>>

\* detect_pattern and determine_optimal_scheduler, applied to the rate
Classify ==
    /\ dpc = "classify"
    /\ detected_pattern' = DetectPattern(rate_and_trend)
    /\ optimal_scheduler' = DetermineOptimalScheduler(detected_pattern')
    /\ dpc' = "classified"
    /\ UNCHANGED <<deployments, iteration, pod_count_history, current_scheduler,
                   current_pattern, listed, cursor, switched_count, patches,
                   rate_and_trend, applied>>
    /\ UNCHANGED <<parseVars, callVars, pod_list, apiVars, envVars, placerVars>>

ClassifyNext ==
    \/ GrowthRateReturned
    \/ Classify

ClassifySpec == ClassifyInit /\ [][ClassifyNext]_vars

---------------------------------------------------------------------------
(* The parsers of the placers, applied to quantity strings *)

\* the characters of the quantity strings
Alphabet == {"0", "1", "2", ".", "m", "n", "K", "M", "G", "T", "i"}

\* the quantity strings of the examples
ExampleQuantities ==
    {<<"1", "0", "0", "m">>, <<"2">>,
     <<"5", "0", "0", "0", "0", "0", "0", "0", "0", "n">>,
     <<"1", "2", "8", "M", "i">>, <<"1", "G", "i">>, <<"1", "G">>,
     <<"1", "0", "2", "4">>}

\* the strings of at most MaxChars characters, and those of the examples
Quantities ==
    {Quantity(chars) :
        chars \in UNION {[1..n -> Alphabet] : n \in 0..MaxChars}
                     \cup ExampleQuantities}

\* an object of the API server holds some quantity string
GiveQuantity ==
    /\ quantity = NoQuantity
    /\ parsed = NotParsed
    /\ quantity' \in Quantities
    /\ UNCHANGED <<parsed, apiVars, envVars, detVars, placerVars, callVars>>

\* placer p calls its parse_cpu on the quantity
ParseCpu(p) ==
    /\ parsed.parse_cpu[p] = NoResult
    /\ parsed' = [parsed EXCEPT !.parse_cpu[p] =
                     IF p = GREEDY_LB THEN GreedyParseCpu(quantity)
                     ELSE RefineParseCpu(quantity)]
    /\ UNCHANGED <<quantity, apiVars, envVars, detVars, placerVars, callVars>>

\* placer p calls its parse_memory on the quantity
ParseMemory(p) ==
    /\ parsed.parse_memory[p] = NoResult
    /\ parsed' = [parsed EXCEPT !.parse_memory[p] =
                     IF p = GREEDY_LB THEN GreedyParseMemory(quantity)
                     ELSE RefineParseMemory(quantity)]
    /\ UNCHANGED <<quantity, apiVars, envVars, detVars, placerVars, callVars>>

ParseNext ==
    \/ GiveQuantity
    \/ \E p \in Placers : ParseCpu(p)
    \/ \E p \in Placers : ParseMemory(p)

ParseSpec == Init /\ [][ParseNext]_vars

---------------------------------------------------------------------------
(* The functions of the placers, called on arguments of every shape         *)

\* the scores, to the model's scale, that calculate_refined_score may return
\* for a candidate
RefineScores == (-1)..MaxScore

\* the candidates of select_best_node with the score each one gets
ScoredCandidates(values) ==
    {[k \in DOMAIN f |-> [node |-> ToString(k), score |-> f[k]]] :
        f \in UNION {[1..n -> values] : n \in 1..MaxCandidates}}

\* RefineLB scores some candidates
GiveRefineScores ==
    /\ args = NoArgs
    /\ args' \in {[fn |-> "select_best_node", p |-> REFINE_LB, scored |-> sc] :
                    sc \in ScoredCandidates(RefineScores)}
    /\ UNCHANGED <<returned, parseVars, apiVars, envVars, detVars, placerVars>>

\* scores, times CpuDen * MemDen, that calculate_node_score may return: -2,
\* -1, just above -1, just below 0, 0 and 1
GreedyScores ==
    {(-2) * CpuDen * MemDen, (-1) * CpuDen * MemDen, 1 - CpuDen * MemDen,
     -1, 0, CpuDen * MemDen}

\* GreedyLB scores some candidates
GiveGreedyScores ==
    /\ args = NoArgs
    /\ args' \in {[fn |-> "select_best_node", p |-> GREEDY_LB, scored |-> sc] :
                    sc \in ScoredCandidates(GreedyScores)}
    /\ UNCHANGED <<returned, parseVars, apiVars, envVars, detVars, placerVars>>

\* the end of select_best_node: the node chosen for the scores
SelectBestNode ==
    /\ args.fn = "select_best_node"
    /\ returned = NoReturn
    /\ returned' = [fn |-> "select_best_node",
                    node |-> IF args.p = GREEDY_LB THEN GreedySelect(args.scored)
                             ELSE RefineSelect(args.scored)]
    /\ UNCHANGED <<args, parseVars, apiVars, envVars, detVars, placerVars>>

\* what get_node_resource_usage returns for a node with these quantities
UsageOf(name, cpu_alloc, memory_alloc, cpu_used, memory_used, pod_count) ==
    [name |-> name,
     cpu_allocatable |-> cpu_alloc,
     memory_allocatable |-> memory_alloc,
     cpu_used |-> cpu_used,
     memory_used |-> memory_used,
     cpu_available |-> cpu_alloc - cpu_used,
     memory_available |-> memory_alloc - memory_used,
     pod_count |-> pod_count]

\* usages of the node that is scored: some of its resources requested, few
\* pods on it or more than max_pods
NodeUsages ==
    {UsageOf("1", ca, 4, cu, mu, count) :
        ca \in {2, 4}, cu \in 0..MaxUsed, mu \in 0..1,
        count \in {0, 1, max_pods + 1}}

\* usages of another node, empty or overcommitted several times
OtherUsages ==
    {UsageOf("2", 1, 1, cu, mu, 1) : cu, mu \in {0, MaxUsed + 1}}

\* RefineLB has read the usage of a node it scores for some pod, and before
\* that the usages all_nodes_usage, with or without this node among them
GiveUsage ==
    /\ args = NoArgs
    /\ \E u \in NodeUsages, o \in OtherUsages, c \in 1..2 :
          \E all \in {<<o>>, <<u, o>>} :
             args' = [fn |-> "calculate_refined_score", usage |-> u,
                      pod_request |-> [cpu |-> c, memory |-> 1],
                      all_nodes_usage |-> all]
    /\ UNCHANGED <<returned, parseVars, apiVars, envVars, detVars, placerVars>>

\* calculate_refined_score, from the usage on
RefinedScore ==
    /\ args.fn = "calculate_refined_score"
    /\ returned = NoReturn
    /\ returned' = [fn |-> "calculate_refined_score",
                    score |-> CalculateRefinedScore(args.usage, args.pod_request,
                                                    args.all_nodes_usage)]
    /\ UNCHANGED <<args, parseVars, apiVars, envVars, detVars, placerVars>>

\* the resources.requests a container may carry: none, or an entry for cpu,
\* for memory, or for both, each of some quantity or of none
RequestMaps ==
    {NoRequests}
       \cup {[cpu |-> c] : c \in 0..MaxRequest}
       \cup {[memory |-> m] : m \in 0..MaxRequest}
       \cup {[cpu |-> c, memory |-> m] : c, m \in 0..MaxRequest}

\* the containers of a pod: at most MaxContainers of them
ContainerLists ==
    UNION {[1..n -> {[requests |-> r] : r \in RequestMaps}] :
              n \in 0..MaxContainers}

\* RefineLB is to place a pod with some containers
GiveContainers ==
    /\ args = NoArgs
    /\ args' \in {[fn |-> "get_pod_resource_requests", containers |-> cs] :
                    cs \in ContainerLists}
    /\ UNCHANGED <<returned, parseVars, apiVars, envVars, detVars, placerVars>>

\* get_pod_resource_requests
PodRequests ==
    /\ args.fn = "get_pod_resource_requests"
    /\ returned = NoReturn
    /\ returned' = [fn |-> "get_pod_resource_requests",
                    request |-> PodResourceRequests(args.containers)]
    /\ UNCHANGED <<args, parseVars, apiVars, envVars, detVars, placerVars>>

CallNext ==
    \/ GiveRefineScores
    \/ GiveGreedyScores
    \/ SelectBestNode
    \/ GiveUsage
    \/ RefinedScore
    \/ GiveContainers
    \/ PodRequests

CallSpec == Init /\ [][CallNext]_vars

---------------------------------------------------------------------------
(* Properties of the placers *)

\* the step is a bind call of placer p that the server accepts
AcceptedBind(p) == pc[p] = "bind" /\ lastBind'[p].result = "accepted"

\* what is left of node n once the requests of its non-terminal pods are taken
RemainingCpu(n) == cpu_allocatable(n) - PodsSum(PodsOnNode(n), "cpu")
RemainingMemory(n) == memory_allocatable(n) - PodsSum(PodsOnNode(n), "memory")

\* node n is ready and not cordoned
NodeFit(n) == nodeReady[n] /\ nodeUnsched[n] # "true"

\* C1: a pod has at most one accepted binding: once it has a node, the node
\* never changes, and no bind call made for it afterwards is accepted: the
\* attempt ends with the bind refused or failed, or with an exception.
C1_BoundAtMostOnce ==
    [][\A i \in PodIds :
          pods[i].node_name # Null =>
             /\ pods'[i].node_name = pods[i].node_name
             /\ \A p \in Placers :
                   (pc[p] = "bind" /\ cur[p].pod = i /\ pc'[p] # "bind")
                      => \/ /\ lastBind'[p].pod = i
                            /\ lastBind'[p].result \in {"rejected", "failed"}
                         \/ /\ pc'[p] = "backoff"
                            /\ lastBind'[p] = NoBind]_vars

\* C1 witness: a bind call for a pod that already had a node was rejected
C1_Witness ==
    \E p \in Placers :
        /\ lastBind[p].result = "rejected"
        /\ pods[lastBind[p].pod].node_name # Null

\* C2: whenever a placer issues a bind, the pod it saw in the event was
\* Pending, had no node and declared this placer's name, and the pod does
\* declare this placer's name: no placer binds the other placer's pods.
C2_BindsOnlyClaimable ==
    \A p \in Placers :
        pc[p] = "bind" =>
           /\ cur[p].phase = "Pending"
           /\ cur[p].node_name = Null
           /\ cur[p].scheduler_name = p
           /\ pods[cur[p].pod].scheduler_name = p

\* C2 witness: a placer's bind was accepted while a pod of the other placer
\* was waiting, Pending and without a node
C2_Witness ==
    \E p \in Placers, j \in PodIds :
        /\ lastBind[p].result = "accepted"
        /\ pods[lastBind[p].pod].scheduler_name = p
        /\ pods[j].phase = "Pending"
        /\ pods[j].node_name = Null
        /\ pods[j].scheduler_name \in Placers \ {p}

\* C3: at the moment a bind of either placer is accepted, the target node is
\* ready and not cordoned.
C3_TargetFitAtBind ==
    [][\A p \in Placers : AcceptedBind(p) => NodeFit(Selected(p))]_vars

\* C4: the node named in a bind call is one of the nodes kept from the node
\* list read in the same attempt, reported there Ready and not unschedulable.
C4_TargetFromListing ==
    \A p \in Placers :
        pc[p] = "bind" =>
           \E k \in 1..Len(nodes[p]) :
              /\ nodes[p][k].name = Selected(p)
              /\ nodes[p][k].ready
              /\ nodes[p][k].unschedulable # "true"

\* C4 witness: a bind call is about to be made in an attempt whose listing
\* left out a node that was not ready
C4_Witness ==
    \E p \in Placers :
        /\ pc[p] = "bind"
        /\ Len(nodes[p]) < Len(NodeNames)
        /\ \E n \in Nodes : ~ nodeReady[n]

\* C5: whenever a bind of RefineLB is accepted, the target node has no
\* negative remaining CPU or memory with the pod on it.
C5_RefineNeverOvercommits ==
    [][\A n \in Nodes :
          (AcceptedBind(REFINE_LB) /\ n = Selected(REFINE_LB)) =>
             /\ RemainingCpu(n)' >= 0
             /\ RemainingMemory(n)' >= 0]_vars

\* the request RefineLB computed for the pod it is placing
RefineRequest == GetPodResourceRequests(pods[cur[REFINE_LB].pod].spec)

\* the usage read for a scored node leaves no room for the request
Unfit(e, request) ==
    /\ e.read
    /\ e.cpu_available < request.cpu \/ e.memory_available < request.memory

\* C6: in a placement attempt of RefineLB, a node whose available CPU or
\* memory, as read when it was scored, is below the pod's request has score 0
\* and is not the node selected.
C6_UnfitNodeNeverSelected ==
    pc[REFINE_LB] \in {"score", "bind"} =>
       \A k \in 1..Len(scores[REFINE_LB]) :
          Unfit(scores[REFINE_LB][k], RefineRequest) =>
             /\ scores[REFINE_LB][k].score = 0
             /\ pc[REFINE_LB] = "bind" =>
                   Selected(REFINE_LB) # scores[REFINE_LB][k].node

\* C6 witness: RefineLB is about to bind to a node it found fit, having
\* scored another node that has some CPU left, but less than the pod asks
C6_Witness ==
    /\ pc[REFINE_LB] = "bind"
    /\ \E k \in 1..Len(scores[REFINE_LB]) :
          /\ scores[REFINE_LB][k].read
          /\ scores[REFINE_LB][k].cpu_available < RefineRequest.cpu
          /\ scores[REFINE_LB][k].cpu_available > 0
          /\ scores[REFINE_LB][k].node # Selected(REFINE_LB)

\* pod i is one placer p can claim: Pending, without a node, declaring p
Claimable(p, i) ==
    /\ pods[i].phase = "Pending"
    /\ pods[i].node_name = Null
    /\ pods[i].scheduler_name = p

\* the stream of placer p holds an ADDED event of pod i, Pending and without
\* a node
Emitted(p, i) ==
    \E k \in 1..Len(stream[p]) :
        /\ stream[p][k].type = "ADDED"
        /\ stream[p][k].pod = i
        /\ stream[p][k].phase = "Pending"
        /\ stream[p][k].node_name = Null

\* after an expiry the placer goes straight to a new subscription, whose
\* stream holds every pod claimable then; and a pod is bound at most once
Resubscribes ==
    /\ \A p \in Placers :
          /\ pc[p] = "expired" => pc'[p] \in {"expired", "subscribe"}
          /\ (pc[p] = "subscribe" /\ pc'[p] # "subscribe") =>
                /\ pc'[p] = "watching"
                /\ \A i \in PodIds : Claimable(p, i) => Emitted(p, i)'
    /\ \A i \in PodIds :
          pods[i].node_name # Null => pods'[i].node_name = pods[i].node_name

---------------------------------------------------------------------------
(* Properties of the detector *)

\* C7: the sample window never holds more than history_window samples, and
\* every iteration appends its sample at the end, keeping the samples before
\* it in order and dropping exactly the oldest one when the window was full.
C7_WindowBounded ==
    /\ [](Len(pod_count_history) <= history_window)
    /\ [][(dpc = "count" /\ disturbed' = disturbed) =>
            \E pod_count \in 0..MaxSample :
               pod_count_history' =
                  IF Len(pod_count_history) = history_window
                  THEN Tail(pod_count_history) \o <<pod_count>>
                  ELSE pod_count_history \o <<pod_count>>]_vars

\* C7 witness: more samples than the window holds have arrived, and the full
\* window holds samples that differ
C7_Witness ==
    /\ iteration > history_window
    /\ Len(pod_count_history) = history_window
    /\ pod_count_history[1] # pod_count_history[history_window]

\* the deployments outside the system namespaces
UserDeployments ==
    {Deployments[k].name : k \in {j \in 1..Len(Deployments) :
                                     Deployments[j].namespace \notin SystemNamespaces}}

\* the step ends a switch that listed the deployments: every user deployment
\* that does not declare the target now has a patch that failed, and every
\* patch issued, one per deployment at most, was for a listed user deployment
\* that declared another scheduler
SwitchPatchedRight ==
    (dpc = "switch" /\ dpc' = "report") =>
       /\ \A d \in UserDeployments :
             deployments'[d] # optimal_scheduler' =>
                \E k \in 1..Len(patches') :
                   patches'[k] = [name |-> d, ok |-> FALSE]
       /\ \A k \in 1..Len(patches') :
             /\ \E j \in 1..Len(listed) :
                   /\ listed[j].name = patches'[k].name
                   /\ listed[j].namespace \notin SystemNamespaces
                   /\ listed[j].scheduler_name # optimal_scheduler'
             /\ \A j \in 1..Len(patches') :
                   patches'[j].name = patches'[k].name => j = k

\* C9 as stated: a decision that chooses a placer other than the current one
\* (none, at first) goes through the deployments and patches every user
\* deployment that declares another scheduler, and no deployment that
\* declares the target; if no patch fails, every user deployment declares
\* the target afterwards.
C9_SwitchPatchesAll ==
    /\ [][(dpc = "decide" /\ optimal_scheduler' # current_scheduler) =>
             (dpc' = "switch" /\ listed' = ListDeployment)]_vars
    /\ [][SwitchPatchedRight]_vars

\* C9 as amended: a decision that chooses a placer other than the current
\* one (none, at first) lists the deployments and, unless the listing fails
\* (then no patch is issued), patches every user deployment that declares
\* another scheduler, and no deployment that declares the target; if no
\* patch fails, every user deployment declares the target afterwards.
C9_SwitchPatchesListed ==
    /\ [][(dpc = "decide" /\ optimal_scheduler' # current_scheduler) =>
             \/ dpc' = "switch" /\ listed' = ListDeployment
             \/ dpc' = "report" /\ patches' = <<>> /\ deployments' = deployments]_vars
    /\ [][SwitchPatchedRight]_vars

\* C9 witness: a switch has patched one user deployment and left alone the
\* other, which declared the target already
C9_Witness ==
    /\ dpc = "report"
    /\ Len(patches) = 1
    /\ patches[1].ok
    /\ \A d \in UserDeployments : deployments[d] = current_scheduler

\* C10: when the decision step is taken again on the same window, it chooses
\* the placer it chose before, does not enter the switch and issues no patch.
C10_SecondDecisionIdle ==
    /\ [](applied = 1 =>
             /\ dpc \in {"decide", "report"}
             /\ dpc = "report" => patches = <<>>)
    /\ [][(applied = 1 /\ dpc = "decide") =>
             optimal_scheduler' = optimal_scheduler]_vars

\* C10 witness: the second decision is over, and a user deployment still
\* declares another scheduler than the one chosen
C10_Witness ==
    /\ applied = 1
    /\ dpc = "report"
    /\ \E d \in UserDeployments : deployments[d] # current_scheduler

\* the growth rate of the last decision is exactly n percent
RateIs(n) == rate_and_trend.num = n * rate_and_trend.den

\* C11: the pattern is stable exactly when the absolute value of the rate is
\* below stable_threshold, linear exactly when it is at least stable_threshold
\* and below linear_threshold, exponential exactly when it is at least
\* linear_threshold; a rate of 10 is linear, rates of 30 and of -30 are
\* exponential.
C11_ClassifiesOnAbsoluteRate ==
    dpc = "classified" =>
       \E num \in {rate_and_trend.num}, den \in {rate_and_trend.den} :
          /\ detected_pattern = STABLE <=>
                (num < stable_threshold * den /\ -num < stable_threshold * den)
          /\ detected_pattern = LINEAR <=>
                /\ num >= stable_threshold * den \/ -num >= stable_threshold * den
                /\ num < linear_threshold * den /\ -num < linear_threshold * den
          /\ detected_pattern = EXPONENTIAL <=>
                (num >= linear_threshold * den \/ -num >= linear_threshold * den)
          /\ RateIs(10) => detected_pattern = LINEAR
          /\ RateIs(30) \/ RateIs(-30) => detected_pattern = EXPONENTIAL

\* C11 witness: a shrinking rate of exactly -30 percent has been classified
\* exponential
C11_Witness ==
    /\ dpc = "classified"
    /\ RateIs(-30)
    /\ detected_pattern = EXPONENTIAL

\* C12: every decision routes a stable or a linear pattern to the greedy
\* placer and an exponential pattern to the refined placer; the placer chosen
\* and the placer recorded are never another name, and a deployment is only
\* ever rewritten to the placer the decision chose.
C12_RoutingRule ==
    /\ [](/\ detected_pattern = Null => optimal_scheduler = Null
          /\ detected_pattern # Null =>
                /\ detected_pattern \in {STABLE, LINEAR, EXPONENTIAL}
                /\ detected_pattern \in {STABLE, LINEAR} =>
                      optimal_scheduler = "greedylb-scheduler"
                /\ detected_pattern = EXPONENTIAL =>
                      optimal_scheduler = "refinelb-scheduler"
          /\ current_scheduler \in {Null, "greedylb-scheduler", "refinelb-scheduler"})
    /\ [][\A d \in DeploymentNames :
             deployments'[d] # deployments[d] =>
                /\ deployments'[d] = optimal_scheduler
                /\ deployments'[d] \in {"greedylb-scheduler", "refinelb-scheduler"}]_vars

\* C12 witness: an exponential pattern has been routed to the refined placer
\* and a deployment rewritten to it, after an earlier decision had recorded
\* the greedy placer
C12_Witness ==
    /\ dpc = "switch"
    /\ detected_pattern = EXPONENTIAL
    /\ current_scheduler = GREEDY_LB
    /\ \E k \in 1..Len(patches) :
          patches[k].ok /\ deployments[patches[k].name] = REFINE_LB

\* C13: while the window holds fewer than two samples the detector is at the
\* top of its loop, has listed and patched nothing and has recorded neither a
\* pattern nor a placer; the iteration that leaves the window that short
\* changes no deployment and no routing state and goes back to sampling.
C13_ShortWindowNoAction ==
    /\ [](Len(pod_count_history) < 2 =>
             /\ dpc \in {"sample", "count"}
             /\ listed = <<>> /\ patches = <<>>
             /\ current_pattern = Null /\ current_scheduler = Null)
    /\ [][(dpc = "count" /\ Len(pod_count_history') < 2) =>
             /\ dpc' = "sample"
             /\ UNCHANGED <<deployments, listed, patches, current_pattern,
                            current_scheduler>>]_vars

\* C13 witness: the first iteration is over, the window holds one sample and
\* a user deployment declares none of the placers
C13_Witness ==
    /\ iteration = 1
    /\ Len(pod_count_history) = 1
    /\ dpc = "sample"
    /\ \E d \in UserDeployments : deployments[d] \notin Placers

RECURSIVE ProductOver(_, _)
\* the product of the samples at the positions S of the window
ProductOver(S, history) ==
    IF S = {} THEN 1
    ELSE LET k == CHOOSE j \in S : TRUE
         IN history[k] * ProductOver(S \ {k}, history)

RECURSIVE ChangesOver(_, _, _)
\* the sum over the steps k in S of the percentage change
\* (history[k+1] - history[k]) / history[k] * 100, times scale
ChangesOver(S, history, scale) ==
    IF S = {} THEN 0
    ELSE LET k == CHOOSE j \in S : TRUE
         IN (history[k + 1] - history[k]) * 100 * (scale \div history[k])
            + ChangesOver(S \ {k}, history, scale)

\* the fraction of a rate in lowest terms
Lowest(rate) ==
    LET g == Gcd(Abs(rate.num), rate.den)
    IN [num |-> rate.num \div g, den |-> rate.den \div g]

\* rate is the arithmetic mean of the percentage changes of the steps in S
IsMeanOver(rate, history, S) ==
    Lowest(rate).num * ProductOver(S, history) * Cardinality(S)
       = Lowest(rate).den * ChangesOver(S, history, ProductOver(S, history))

\* rate is (newest - oldest) / oldest * 100
IsSimpleRate(rate, history) ==
    rate.num * history[1]
       = rate.den * (history[Len(history)] - history[1]) * 100

\* the steps of the window, and those whose predecessor is not zero
Steps(history) == 1..(Len(history) - 1)
NonZeroSteps(history) == {k \in Steps(history) : history[k] # 0}

\* the decision step has computed the growth rate of a window whose oldest
\* sample is not zero
RatedFromNonZero ==
    /\ rate_and_trend.trend # Null
    /\ pod_count_history[1] # 0

\* C14 as stated: for a window whose oldest sample is not zero, the rate is
\* the mean of the per-step changes, with trend "calculated", exactly when
\* the window has three samples or more and no predecessor is zero; in every
\* other case it is the simple rate, with trend "simple".
C14_MeanOrSimple ==
    RatedFromNonZero =>
       \E h \in {pod_count_history}, rate \in {rate_and_trend} :
          IF Len(h) >= 3 /\ NonZeroSteps(h) = Steps(h)
          THEN rate.trend = "calculated" /\ IsMeanOver(rate, h, Steps(h))
          ELSE rate.trend = "simple" /\ IsSimpleRate(rate, h)

\* C14 as amended: for a window whose oldest sample is not zero, the rate is
\* the mean of the per-step changes of the steps whose predecessor is not
\* zero, with trend "calculated", exactly when the window has three samples
\* or more; for a window of two samples it is the simple rate, with trend
\* "simple".  The window [2,3,4] gives the mean of 50 and 33.33, that is
\* 125/3; [3,0,5] gives -100, not the simple rate.
C14_MeanOfNonZeroSteps ==
    RatedFromNonZero =>
       \E h \in {pod_count_history}, rate \in {rate_and_trend} :
          /\ IF Len(h) >= 3
             THEN rate.trend = "calculated" /\ IsMeanOver(rate, h, NonZeroSteps(h))
             ELSE rate.trend = "simple" /\ IsSimpleRate(rate, h)
          /\ h = <<2, 3, 4>> => rate.num * 3 = rate.den * 125
          /\ h = <<3, 0, 5>> => rate.num = rate.den * (-100)

\* C14 witness: the rate of a window with a zero in the middle has been
\* computed as a mean, and it is not the simple rate
C14_Witness ==
    /\ RatedFromNonZero
    /\ Len(pod_count_history) >= 3
    /\ NonZeroSteps(pod_count_history) # Steps(pod_count_history)
    /\ rate_and_trend.trend = "calculated"
    /\ ~ IsSimpleRate(rate_and_trend, pod_count_history)

\* C15: for a window whose oldest sample is 0, a newest sample above 0 gives
\* the rate 100 with trend "startup", the pattern exponential and the refined
\* placer; a newest sample of 0 gives the rate 0 with trend "no_pods", the
\* pattern stable and the greedy placer; the samples in between play no part.
C15_StartsFromZero ==
    (rate_and_trend.trend # Null /\ pod_count_history[1] = 0) =>
       IF pod_count_history[Len(pod_count_history)] > 0
       THEN /\ rate_and_trend.num = 100 * rate_and_trend.den
            /\ rate_and_trend.trend = "startup"
            /\ detected_pattern = EXPONENTIAL
            /\ optimal_scheduler = REFINE_LB
       ELSE /\ rate_and_trend.num = 0
            /\ rate_and_trend.trend = "no_pods"
            /\ detected_pattern = STABLE
            /\ optimal_scheduler = GREEDY_LB

\* C15 witness: the rate of a window that starts at 0, goes up and comes
\* back to 0 has been computed
C15_Witness ==
    /\ rate_and_trend.trend = "no_pods"
    /\ Len(pod_count_history) >= 3
    /\ \E k \in 2..(Len(pod_count_history) - 1) : pod_count_history[k] > 0

\* the decision on window w is over
DecidedOn(w) == dpc = "report" /\ pod_count_history = w

\* every user deployment declares placer p
AllDeclare(p) == \A d \in UserDeployments : deployments[d] = p

\* every user deployment declares placer p, unless the listing failed (no
\* patch was issued) or the patch of the deployment failed
AllDeclareUnlessFailed(p) ==
    \/ patches = <<>>
    \/ \A d \in UserDeployments :
          \/ deployments[d] = p
          \/ \E k \in 1..Len(patches) : patches[k] = [name |-> d, ok |-> FALSE]

\* C16 as stated: on the window [5,5,5,5,10,20] the rate is 40, the pattern
\* exponential and every user deployment is patched to refinelb-scheduler; on
\* the window [20,20,20,20,20,20] the rate is 0, the pattern stable and the
\* decision patches the user deployments back to greedylb-scheduler.
C16_TransitionPatchesBack ==
    /\ DecidedOn(<<5, 5, 5, 5, 10, 20>>) =>
          /\ RateIs(40)
          /\ detected_pattern = EXPONENTIAL
          /\ AllDeclare("refinelb-scheduler")
    /\ DecidedOn(<<20, 20, 20, 20, 20, 20>>) =>
          /\ RateIs(0)
          /\ detected_pattern = STABLE
          /\ AllDeclare("greedylb-scheduler")
          /\ \A d \in UserDeployments :
                \E k \in 1..Len(patches) : patches[k] = [name |-> d, ok |-> TRUE]

\* C16 as amended: on the window [5,5,5,5,10,20] the rate is 40, the pattern
\* exponential, and the decision switches to refinelb-scheduler: every user
\* deployment declares it afterwards, unless the listing or the patch of the
\* deployment failed.  The switch back to greedylb-scheduler is made on the
\* window [10,20,20,20,20,20], whose rate is 20 and whose pattern is linear,
\* with the same outcome.  On the window [20,20,20,20,20,20] the rate is 0
\* and the pattern stable; the placer chosen is the one recorded, and the
\* decision issues no patch.
C16_TransitionSwitchesBackEarlier ==
    /\ [](DecidedOn(<<5, 5, 5, 5, 10, 20>>) =>
             /\ RateIs(40)
             /\ detected_pattern = EXPONENTIAL
             /\ current_scheduler = "refinelb-scheduler"
             /\ AllDeclareUnlessFailed("refinelb-scheduler"))
    /\ [](DecidedOn(<<10, 20, 20, 20, 20, 20>>) =>
             /\ RateIs(20)
             /\ detected_pattern = LINEAR
             /\ current_scheduler = "greedylb-scheduler"
             /\ AllDeclareUnlessFailed("greedylb-scheduler"))
    /\ [](DecidedOn(<<20, 20, 20, 20, 20, 20>>) =>
             /\ RateIs(0)
             /\ detected_pattern = STABLE
             /\ optimal_scheduler = "greedylb-scheduler"
             /\ current_scheduler = "greedylb-scheduler"
             /\ patches = <<>>)
    /\ [][(dpc = "decide" /\ pod_count_history \in {<<5, 5, 5, 5, 10, 20>>,
                                                     <<10, 20, 20, 20, 20, 20>>})
             => optimal_scheduler' # current_scheduler]_vars

\* C16 witness: the decision on [5,5,5,5,10,20] has patched both user
\* deployments to refinelb-scheduler
C16_Witness ==
    /\ DecidedOn(<<5, 5, 5, 5, 10, 20>>)
    /\ AllDeclare(REFINE_LB)
    /\ Len(patches) = Cardinality(UserDeployments)
    /\ \A k \in 1..Len(patches) : patches[k].ok

\* placer p is in a placement attempt
Attempting(p) == pc[p] \in {"list_nodes", "usage", "score", "bind"}

\* the step takes from the stream of placer p an event of a pod that has a
\* node already
TakesBoundPod(p) ==
    /\ pc[p] = "watching"
    /\ stream[p] # <<>>
    /\ stream'[p] = Tail(stream[p])
    /\ pc'[p] \in {"watching", "list_nodes"}
    /\ pods[Head(stream[p]).pod].node_name # Null

\* the step ends an attempt of placer p for a pod that has a node already
EndsAttemptOnBoundPod(p) ==
    /\ Attempting(p)
    /\ pc'[p] = "watching"
    /\ pods[cur[p].pod].node_name # Null

\* an event of a bound pod is skipped exactly when it is no ADDED or MODIFIED
\* event of a pod seen Pending and without a node; the pods stay as they are
SkipsOrAttempts(p) ==
    TakesBoundPod(p) =>
       /\ pods' = pods
       /\ pc'[p] = "watching" <=>
             ~ (/\ Head(stream[p]).type \in {"ADDED", "MODIFIED"}
                /\ Head(stream[p]).phase = "Pending"
                /\ Head(stream[p]).node_name = Null)

\* C17 as stated: an event delivered for a pod that is bound already is
\* skipped, or its attempt ends in a bind call that is not accepted; the
\* node of the pod stays.
C17_RedeliverySkipsOrConflicts ==
    [][\A p \in Placers :
          /\ SkipsOrAttempts(p)
          /\ EndsAttemptOnBoundPod(p) =>
                /\ pods' = pods
                /\ lastBind'[p].pod = cur[p].pod
                /\ lastBind'[p].result \in {"rejected", "failed"}]_vars

\* C17 as amended: an event delivered for a pod that is bound already is
\* skipped, or its attempt ends without a bind call because it found no
\* node, or it ends in a bind call that is not accepted; the node of the pod
\* stays.
C17_RedeliveryBindsNothing ==
    [][\A p \in Placers :
          /\ SkipsOrAttempts(p)
          /\ EndsAttemptOnBoundPod(p) =>
                /\ pods' = pods
                /\ lastBind'[p].pod = cur[p].pod
                /\ lastBind'[p].result \in {"rejected", "failed", "no_node"}
                /\ lastBind'[p].result = "no_node" <=> pc[p] # "bind"]_vars

\* C17 witness: the attempt made for a second event of a pod that was bound
\* already has ended without a bind call
C17_Witness ==
    \E p \in Placers :
        /\ lastBind[p].result = "no_node"
        /\ pods[lastBind[p].pod].node_name # Null

\* sequence s is the beginning of sequence t
IsPrefix(s, t) == Len(s) <= Len(t) /\ SubSeq(t, 1, Len(s)) = s

\* C18: a placer takes an event only while it is in no attempt, and the one
\* it takes is the oldest of its stream; during an attempt the stream is not
\* advanced and the pod in hand stays; the bind call that ends the attempt is
\* the one for that pod, so binds follow the order of the events, one at a
\* time; an attempt that an exception ends binds nothing, and the stream is
\* given up with it.
C18_SynchronousFifo ==
    [][\A p \in Placers :
          /\ (stream[p] # <<>> /\ ~ IsPrefix(stream[p], stream'[p])
                 /\ pc'[p] \in {"watching", "list_nodes"}) =>
                /\ pc[p] = "watching"
                /\ stream'[p] = Tail(stream[p])
                /\ pc'[p] = "list_nodes" => cur'[p] = Head(stream[p])
          /\ cur'[p] \notin {cur[p], NoEvent} => pc[p] = "watching"
          /\ Attempting(p) =>
                \/ /\ IsPrefix(stream[p], stream'[p])
                   /\ Attempting(p)' => cur'[p] = cur[p]
                   /\ ~ Attempting(p)' =>
                         pc'[p] = "watching" /\ lastBind'[p].pod = cur[p].pod
                \/ /\ pc'[p] = "backoff"
                   /\ stream'[p] = <<>>
                   /\ lastBind'[p] = NoBind
                   /\ pods' = pods]_vars

\* C18 witness: a placer is about to bind a pod while the event of another
\* pod, Pending and without a node, waits in its stream
C18_Witness ==
    \E p \in Placers :
        /\ pc[p] = "bind"
        /\ \E k \in 1..Len(stream[p]) :
              /\ ShouldSchedule(stream[p][k])
              /\ stream[p][k].pod # cur[p].pod

\* RefineLB is about to bind a pod asking 100m of CPU to node n, which it saw
\* with 150m of CPU free, and a pod of GreedyLB asking 100m has been bound to
\* n since
BothChoseSharedNode(n) ==
    /\ pc[REFINE_LB] = "bind"
    /\ Selected(REFINE_LB) = n
    /\ RefineRequest.cpu = 2
    /\ \E k \in 1..Len(scores[REFINE_LB]) :
          /\ scores[REFINE_LB][k].node = n
          /\ scores[REFINE_LB][k].read
          /\ scores[REFINE_LB][k].cpu_available = 3
    /\ \E j \in PodIds :
          /\ pods[j].scheduler_name = GREEDY_LB
          /\ pods[j].node_name = n
          /\ ContainersSum(PodSpecs[pods[j].spec], "cpu", 0) = 2

\* C19: when both placers have chosen the same node with 150m of CPU free
\* for a pod asking 100m each and the bind of GreedyLB has been accepted, the
\* bind of RefineLB is rejected, its pod stays without a node, and the node
\* is not committed beyond its capacity.
C19_SharedNodeOneBindWins ==
    [][\A n \in Nodes :
          (BothChoseSharedNode(n) /\ pc'[REFINE_LB] # "bind") =>
             /\ lastBind'[REFINE_LB].result = "rejected"
             /\ pods'[cur[REFINE_LB].pod].node_name = Null
             /\ RemainingCpu(n)' >= 0]_vars

\* C20: a placer issues a bind call only in an attempt that kept some node
\* and gave some candidate a score other than zero; an attempt that ends
\* without a bind call leaves the pods as they are, and the placer goes on
\* with the events of its stream.
C20_NoBindWithoutScoredNode ==
    /\ [](\A p \in Placers :
             pc[p] = "bind" =>
                /\ nodes[p] # <<>>
                /\ \E k \in 1..Len(scores[p]) : scores[p][k].score # 0)
    /\ [][\A p \in Placers :
             (Attempting(p) /\ lastBind'[p].result = "no_node") =>
                /\ pods' = pods
                /\ pc'[p] = "watching"]_vars

\* C21: when the score of a node could not be computed in an attempt, the
\* node scores 0 and is not the node the attempt binds the pod to, and every
\* other node the attempt kept has been scored when the bind is called.
C21_ScoringErrorSkipsNode ==
    \A p \in Placers :
       pc[p] = "bind" =>
          /\ Len(scores[p]) = Len(nodes[p])
          /\ \A k \in 1..Len(scores[p]) :
                ~ scores[p][k].read =>
                   /\ scores[p][k].score = 0
                   /\ Selected(p) # scores[p][k].node

\* the positions of a placer's loop: about to open the stream, reading it,
\* in a placement attempt, in the handler of status 410, in the sleep
LoopPositions ==
    {"subscribe", "watching", "list_nodes", "usage", "score", "bind", "expired",
     "backoff"}

\* C22: a placer is always at a position of its loop and comes back to
\* reading the stream again and again.  After a stream-expired error it opens
\* the stream again at once, without the sleep; after any other error of the
\* stream or of the handling of an event it sleeps and then opens the stream
\* again; after a stream that ended it opens the stream again.
C22_LoopNeverEnds ==
    /\ [](\A p \in Placers : pc[p] \in LoopPositions)
    /\ \A p \in Placers : []<>(pc[p] = "watching")
    /\ [][\A p \in Placers :
             /\ (pc'[p] # pc[p] /\ pc'[p] \in {"expired", "backoff"}) =>
                   /\ pc[p] \in {"watching", "list_nodes", "bind"}
                   /\ pc'[p] = "expired" <=> lastError'[p] = "expired"
                   /\ pc'[p] = "backoff" <=> lastError'[p] = "failed"
             /\ lastError'[p] # lastError[p] => pc'[p] \in {"expired", "backoff"}
             /\ pc[p] = "expired" => pc'[p] \in {"expired", "subscribe"}
             /\ pc[p] = "backoff" => pc'[p] \in {"backoff", "subscribe"}
             /\ pc[p] = "subscribe" => pc'[p] \in {"subscribe", "watching"}
             /\ (pc[p] = "watching" /\ pc'[p] = "subscribe") =>
                   UNCHANGED <<lastError, pods>>]_vars

\* C22 witness: a placer reads the stream again after the sleep that
\* followed an error
C22_Witness ==
    \E p \in Placers :
       /\ pc[p] = "watching"
       /\ lastError[p] = "failed"
       /\ disturbed = MaxDisturbed

\* C23: in a switch, a patch that fails leaves the detector in the loop over
\* the deployments, at the next one; when the loop is over, every listed user
\* deployment that declared another scheduler has had its patch call, and the
\* active placer is the target, however many patches succeeded.
C23_FailedPatchGoesOn ==
    /\ [][(dpc = "switch" /\ patches' # patches) =>
             /\ dpc' = "switch"
             /\ cursor' = cursor + 1
             /\ listed' = listed]_vars
    /\ [][(dpc = "switch" /\ dpc' = "report") =>
             /\ current_scheduler' = optimal_scheduler
             /\ \A j \in 1..Len(listed) :
                   (/\ listed[j].namespace \notin SystemNamespaces
                    /\ listed[j].scheduler_name # optimal_scheduler) =>
                      \E k \in 1..Len(patches') : patches'[k].name = listed[j].name]_vars

\* C23 witness: a switch is over in which the first patch failed and the
\* next one succeeded; the active placer is the target, which the deployment
\* of the failed patch does not declare
C23_Witness ==
    /\ dpc = "report"
    /\ Len(patches) = 2
    /\ ~ patches[1].ok
    /\ patches[2].ok
    /\ current_scheduler = optimal_scheduler
    /\ deployments[patches[1].name] # current_scheduler

\* the pods of a pod list that are in one of the namespaces S and in one of
\* the phases P
PodsIn(items, S, P) ==
    SeqSum([k \in 1..Len(items) |->
               IF PodKinds[k].namespace \in S /\ PodKinds[k].phase \in P
               THEN items[k] ELSE 0])

\* the namespaces of the pod kinds outside the three system namespaces
UserNamespaces ==
    {PodKinds[k].namespace : k \in 1..Len(PodKinds)}
       \ {"kube-system", "kube-public", "kube-node-lease"}

\* C24: the sample appended, when counting is not cut short by an exception,
\* is the number of Running and Pending pods of the list outside
\* kube-system, kube-public and kube-node-lease, whatever pods these
\* namespaces hold; a deployment in one of them is never rewritten and never
\* the subject of a patch call.
C24_SystemNamespacesExcluded ==
    /\ [][(dpc = "count" /\ pod_list.answered /\ disturbed' = disturbed) =>
             pod_count_history'[Len(pod_count_history')] =
                PodsIn(pod_list.items, UserNamespaces, {"Running", "Pending"})]_vars
    /\ [](\A j \in 1..Len(Deployments) :
             Deployments[j].namespace
                   \in {"kube-system", "kube-public", "kube-node-lease"} =>
                /\ deployments[Deployments[j].name] = DEFAULT_SCHEDULER
                /\ \A k \in 1..Len(patches) :
                      patches[k].name # Deployments[j].name)

\* C24 witness: after a switch to the refined placer that patched the user
\* deployments and left those of the system namespaces on another scheduler,
\* the detector holds a list with active pods in all three system namespaces
\* and in a user namespace
C24_Witness ==
    /\ dpc = "count"
    /\ pod_list.answered
    /\ PodsIn(pod_list.items, {"kube-system"}, {"Running"}) > 0
    /\ PodsIn(pod_list.items, {"kube-public"}, {"Pending"}) > 0
    /\ PodsIn(pod_list.items, {"kube-node-lease"}, {"Running"}) > 0
    /\ PodsIn(pod_list.items, UserNamespaces, {"Running", "Pending"}) > 0
    /\ current_scheduler = REFINE_LB
    /\ \A d \in UserDeployments : deployments[d] = REFINE_LB
    /\ deployments["dns"] # REFINE_LB /\ deployments["proxy"] # REFINE_LB

\* C25: a pod list that raised is no observation: the iteration appends no
\* sample, classifies nothing, changes neither the routing state nor a
\* deployment, and the loop starts over with the next iteration.
C25_FailedListingIsNoSample ==
    [][(dpc = "count" /\ ~ pod_list.answered) =>
          /\ pod_count_history' = pod_count_history
          /\ dpc' = "sample"
          /\ UNCHANGED <<deployments, current_scheduler, current_pattern,
                         detected_pattern, optimal_scheduler>>]_vars

\* C26: an exception that reaches the handler of monitor_loop leaves the
\* window as it was, sample for sample, and the routing state too; the
\* detector is at the top of its loop again, and every later iteration
\* appends to that window.
C26_WindowSurvivesException ==
    /\ [][disturbed' # disturbed =>
             /\ dpc' = "sample"
             /\ pod_count_history' = pod_count_history
             /\ UNCHANGED <<current_scheduler, current_pattern>>]_vars
    /\ [](dpc \in {"sample", "count", "decide", "switch", "report"})
    /\ [][(dpc = "count" /\ disturbed' = disturbed) =>
             SubSeq(pod_count_history', 1, Len(pod_count_history') - 1) =
                IF Len(pod_count_history) = history_window
                THEN Tail(pod_count_history) ELSE pod_count_history]_vars

\* C26 witness: an iteration raised while patching, after three samples; the
\* next iteration has appended the fourth sample to the three
C26_Witness ==
    /\ disturbed = 1
    /\ iteration = 4
    /\ Len(pod_count_history) = 4
    /\ dpc = "decide"
    /\ \A d \in UserDeployments : deployments[d] # current_scheduler

\* C27: when an iteration that classified a pattern is over, current_pattern
\* is the pattern it classified, whether or not the placer changed.
C27_CurrentPatternIsLastClassified ==
    [][(dpc \in {"decide", "switch"} /\ dpc' = "report") =>
          current_pattern' = detected_pattern']_vars

\* the value of the float x is the fraction num / den
IsValue(x, num, den) ==
    x.ok /\ x.power = 0 /\ Lowest(x) = Lowest([num |-> num, den |-> den])

\* the float x is the number the string chars writes, times scale / divisor
IsScaled(x, chars, scale, divisor) ==
    IF Float(chars).ok
    THEN IsValue(x, Float(chars).num * scale, Float(chars).den * divisor)
    ELSE x = ValueError

\* C28: parse_cpu of either placer gives 0 for no string and for the empty
\* one, the number before a suffix m, the number before a suffix n divided by
\* 1,000,000, and otherwise the number times 1000: "100m" is 100, "2" is
\* 2000, "500000000n" is 500; the two placers return the same on every
\* string.
C28_CpuParser ==
    /\ \A p \in Placers :
          \E x \in {parsed.parse_cpu[p]}, s \in {quantity.chars} :
             x # NoResult =>
                /\ (~ quantity.present \/ s = <<>>) => IsValue(x, 0, 1)
                /\ (s # <<>> /\ s[Len(s)] = "m") =>
                      IsScaled(x, SubSeq(s, 1, Len(s) - 1), 1, 1)
                /\ (s # <<>> /\ s[Len(s)] = "n") =>
                      IsScaled(x, SubSeq(s, 1, Len(s) - 1), 1, 1000000)
                /\ (s # <<>> /\ s[Len(s)] \notin {"m", "n"}) =>
                      IsScaled(x, s, 1000, 1)
                /\ s = <<"1", "0", "0", "m">> => IsValue(x, 100, 1)
                /\ s = <<"2">> => IsValue(x, 2000, 1)
                /\ s = <<"5", "0", "0", "0", "0", "0", "0", "0", "0", "n">> =>
                      IsValue(x, 500, 1)
    /\ (parsed.parse_cpu[GREEDY_LB] # NoResult
           /\ parsed.parse_cpu[REFINE_LB] # NoResult) =>
          parsed.parse_cpu[GREEDY_LB] = parsed.parse_cpu[REFINE_LB]

\* C28 witness: both placers have parsed "500000000n" and got 500
C28_Witness ==
    /\ quantity.chars = <<"5", "0", "0", "0", "0", "0", "0", "0", "0", "n">>
    /\ \A p \in Placers : IsValue(parsed.parse_cpu[p], 500, 1)

\* the float x is the number the string chars writes, times base^power
IsTimes(x, chars, base, power) ==
    IF Float(chars).ok
    THEN /\ x.ok
         /\ Lowest(x) = Lowest(Float(chars))
         /\ x.base = base /\ x.power = power
    ELSE x = ValueError

\* the float x is the whole number of bytes n
IsBytes(x, n) == x.ok /\ x.den = 1 /\ x.num * Pow(x.base, x.power) = n

\* C29: parse_memory of either placer gives 0 for no string and for the empty
\* one; the number before Ki, Mi, Gi, Ti times 1024, 1024^2, 1024^3, 1024^4;
\* the number before K, M, G, T times 1000, 1000^2, 1000^3, 1000^4; and the
\* number itself when there is no suffix.  "128Mi" is 128 * 1048576 and not
\* 128 * 1000000, "1Gi" is 1073741824, "1G" is 1000000000, "1024" is 1024.
C29_MemoryParser ==
    \A p \in Placers :
       \E x \in {parsed.parse_memory[p]}, s \in {quantity.chars},
          letters \in {<<"K", "M", "G", "T">>} :
          x # NoResult =>
             /\ (~ quantity.present \/ s = <<>>) => IsValue(x, 0, 1)
             /\ \A k \in 1..Len(letters) :
                   /\ EndsWith(s, <<letters[k], "i">>) =>
                         IsTimes(x, SubSeq(s, 1, Len(s) - 2), 1024, k)
                   /\ EndsWith(s, <<letters[k]>>) =>
                         IsTimes(x, SubSeq(s, 1, Len(s) - 1), 1000, k)
             /\ (/\ s # <<>>
                 /\ \A k \in 1..Len(letters) :
                       /\ ~ EndsWith(s, <<letters[k], "i">>)
                       /\ ~ EndsWith(s, <<letters[k]>>)) =>
                   IsTimes(x, s, 1, 0)
             /\ s = <<"1", "2", "8", "M", "i">> =>
                   IsBytes(x, 128 * 1048576) /\ ~ IsBytes(x, 128 * 1000000)
             /\ s = <<"1", "G", "i">> => IsBytes(x, 1073741824)
             /\ s = <<"1", "G">> => IsBytes(x, 1000000000)
             /\ s = <<"1", "0", "2", "4">> => IsBytes(x, 1024)

\* C29 witness: both placers have parsed "128Mi" and got 134217728 bytes
C29_Witness ==
    /\ quantity.chars = <<"1", "2", "8", "M", "i">>
    /\ \A p \in Placers : IsBytes(parsed.parse_memory[p], 134217728)

\* a node of the list that is ready and not cordoned
ReadyUncordoned(node) == node.ready /\ node.unschedulable # "true"

\* score, which is held times CpuDen * MemDen, is 70 * (available CPU /
\* allocatable CPU) + 30 * (available memory / allocatable memory) of node n
IsGreedyScore(score, n) ==
    score * cpu_allocatable(n) * memory_allocatable(n) =
        CpuDen * MemDen * (70 * RemainingCpu(n) * memory_allocatable(n)
                           + 30 * RemainingMemory(n) * cpu_allocatable(n))

\* the first of the scored nodes that no other scored node exceeds
FirstMaximum(scored) ==
    scored[CHOOSE k \in 1..Len(scored) :
              /\ \A j \in 1..Len(scored) : scored[j].score <= scored[k].score
              /\ \A j \in 1..(k - 1) : scored[j].score < scored[k].score].node

\* C30: the candidates of GreedyLB are the ready, uncordoned nodes of the
\* list, in its order; each is scored 70 * (available CPU / allocatable CPU)
\* + 30 * (available memory / allocatable memory), available being
\* allocatable minus the requests of the non-terminal pods on the node (a
\* node whose pod list raised counts 0); and the node GreedyLB binds the pod
\* to is the candidate with the maximum score, the first listed among equals.
C30_GreedyBindsFirstMaximum ==
    /\ [](pc[GREEDY_LB] = "bind" =>
            /\ Len(scores[GREEDY_LB]) = Len(nodes[GREEDY_LB])
            /\ \A k \in 1..Len(scores[GREEDY_LB]) :
                  scores[GREEDY_LB][k].node = nodes[GREEDY_LB][k].name)
    /\ [][\E p \in {GREEDY_LB} :
            /\ (pc[p] = "list_nodes" /\ pc'[p] = "score") =>
                  nodes'[p] = SelectSeq(ListNode, ReadyUncordoned)
            /\ (pc[p] = "score" /\ scores'[p] # scores[p] /\ scores'[p] # <<>>) =>
                  \E e \in {scores'[p][Len(scores'[p])]} :
                     /\ scores'[p] = Append(scores[p], e)
                     /\ e.node = nodes[p][idx[p]].name
                     /\ e.read => IsGreedyScore(e.score, e.node)
                     /\ ~ e.read => e.score = 0
            /\ (pc[p] = "bind" /\ lastBind'[p] # lastBind[p]
                   /\ lastBind'[p].result = "accepted") =>
                  /\ lastBind'[p].node = FirstMaximum(scores[p])
                  /\ pods'[cur[p].pod].node_name = FirstMaximum(scores[p])
                  /\ pods[cur[p].pod].node_name = Null]_vars

\* C30 witness: GreedyLB has scored two empty nodes, n1 and n2 listed in
\* that order, both at the full score, and has selected n1
C30_Witness ==
    /\ pc[GREEDY_LB] = "bind"
    /\ Len(scores[GREEDY_LB]) = 2
    /\ \A k \in 1..2 :
          /\ scores[GREEDY_LB][k].read
          /\ scores[GREEDY_LB][k].node = NodeNames[k]
          /\ scores[GREEDY_LB][k].score = 100 * CpuDen * MemDen
          /\ PodsOnNode(NodeNames[k]) = <<>>
    /\ Selected(GREEDY_LB) = "n1"

\* k is the first of the candidates with the highest score
IsFirstHighest(scored, k) ==
    /\ \A j \in 1..Len(scored) : scored[j].score <= scored[k].score
    /\ \A j \in 1..(k - 1) : scored[j].score < scored[k].score

\* C31: select_best_node of RefineLB returns the candidate with the highest
\* total score when that score is above 0, the first listed of several with
\* that score; it returns no node when no candidate scores above 0, so that a
\* candidate with a total of 0 or less is never returned.
C31_RefineSelectsFirstHighest ==
    (returned.fn = "select_best_node" /\ args.p = REFINE_LB) =>
       \E scored \in {args.scored} :
          /\ returned.node = Null <=>
                \A k \in 1..Len(scored) : scored[k].score <= 0
          /\ returned.node # Null =>
                \E k \in 1..Len(scored) :
                   /\ scored[k].node = returned.node
                   /\ scored[k].score > 0
                   /\ IsFirstHighest(scored, k)

\* C31 witness: of three candidates scoring 0, 2 and 2 the second is returned
C31_Witness ==
    /\ returned.fn = "select_best_node"
    /\ args.p = REFINE_LB
    /\ Len(args.scored) = 3
    /\ args.scored[1].score = 0
    /\ args.scored[2].score = 2
    /\ args.scored[3].score = 2
    /\ returned.node = args.scored[2].node

\* exact fractions, each in lowest terms
Q(n, d) == Lowest([num |-> n, den |-> d])
QAdd(x, y) == Q(x.num * y.den + y.num * x.den, x.den * y.den)
QSub(x, y) == Q(x.num * y.den - y.num * x.den, x.den * y.den)
QMul(x, y) == Q(x.num * y.num, x.den * y.den)
QAbs(x) == [num |-> Abs(x.num), den |-> x.den]

RECURSIVE QSum(_)
QSum(xs) == IF xs = <<>> THEN Q(0, 1) ELSE QAdd(Head(xs), QSum(Tail(xs)))

\* the utilisation, in percent, of a node with `used' of `alloc' requested
Util(used, alloc) == Q(used * 100, Max(alloc, 1))

\* the four contributions to the score of a node with usage u for a pod
\* requesting r, the usages all being those of the candidates
ResourcesPart(u, r) ==
    QMul(QAdd(Q(u.cpu_available - r.cpu, Max(u.cpu_allocatable, 1)),
              Q(u.memory_available - r.memory, Max(u.memory_allocatable, 1))),
         Q(40, 2))
BalancePart(u, r, all) ==
    LET avg_cpu == QMul(QSum([k \in 1..Len(all) |->
                                Util(all[k].cpu_used, all[k].cpu_allocatable)]),
                        Q(1, Len(all)))
        avg_mem == QMul(QSum([k \in 1..Len(all) |->
                                Util(all[k].memory_used, all[k].memory_allocatable)]),
                        Q(1, Len(all)))
        new_cpu == Util(u.cpu_used + r.cpu, u.cpu_allocatable)
        new_mem == Util(u.memory_used + r.memory, u.memory_allocatable)
    IN QMul(QSub(Q(200, 1), QAdd(QAbs(QSub(new_cpu, avg_cpu)),
                                 QAbs(QSub(new_mem, avg_mem)))),
            Q(3, 20))
DensityPart(u) == Q((110 - u.pod_count) * 20, 110)
TargetPart(u, r) ==
    LET new_cpu == Util(u.cpu_used + r.cpu, u.cpu_allocatable)
        new_mem == Util(u.memory_used + r.memory, u.memory_allocatable)
    IN QMul(QSub(Q(200, 1), QAdd(QAbs(QSub(new_cpu, Q(65, 1))),
                                 QAbs(QSub(new_mem, Q(65, 1))))),
            Q(1, 20))

\* C32: for a node the pod fits on, the score of RefineLB is the sum of
\* (0.5 * cpu_after + 0.5 * mem_after) * 40, of (0.5 * (100 - |new_cpu_util -
\* avg_cpu_util|) + 0.5 * (100 - |new_mem_util - avg_mem_util|)) * 0.3 with
\* the averages over all usages read, of (1 - pod_count / 110) * 20 and of
\* (0.5 * (100 - |new_cpu_util - 65|) + 0.5 * (100 - |new_mem_util - 65|)) *
\* 0.1, none of them clamped: a negative contribution enters the sum as it is.
C32_RefinedScoreIsSumOfFour ==
    (returned.fn = "calculate_refined_score"
        /\ args.usage.cpu_available >= args.pod_request.cpu
        /\ args.usage.memory_available >= args.pod_request.memory) =>
       \E u \in {args.usage}, r \in {args.pod_request},
          all \in {args.all_nodes_usage} :
          Q(returned.score, 220 * Den) =
             QSum(<<ResourcesPart(u, r), BalancePart(u, r, all),
                    DensityPart(u), TargetPart(u, r)>>)

\* C32 witness: a score has been returned for a node the pod fits on, with
\* a negative balance contribution and a negative density contribution
C32_Witness ==
    /\ returned.fn = "calculate_refined_score"
    /\ args.usage.cpu_available >= args.pod_request.cpu
    /\ args.usage.memory_available >= args.pod_request.memory
    /\ BalancePart(args.usage, args.pod_request, args.all_nodes_usage).num < 0
    /\ DensityPart(args.usage).num < 0
    /\ returned.score # 0

\* the sum, over the containers, of the entries they declare under key
DeclaredSum(containers, key) ==
    SeqSum([k \in 1..Len(containers) |->
               IF key \in DOMAIN containers[k].requests
               THEN containers[k].requests[key] ELSE 0])

\* C33: the request of a pod is, for CPU and for memory, the sum of the
\* entries its containers declare, a container without the entry adding
\* nothing, and the default of 100 millicores (of 128 Mi) when and only when
\* that sum is zero.
C33_RequestIsDeclaredSum ==
    returned.fn = "get_pod_resource_requests" =>
       /\ returned.request.cpu =
             IF DeclaredSum(args.containers, "cpu") = 0 THEN DefaultCpu
             ELSE DeclaredSum(args.containers, "cpu")
       /\ returned.request.memory =
             IF DeclaredSum(args.containers, "memory") = 0 THEN DefaultMemory
             ELSE DeclaredSum(args.containers, "memory")

\* an ADDED or MODIFIED event whose pod is Pending and has no node
WantedEvent(ev) ==
    /\ ev.type \in {"ADDED", "MODIFIED"}
    /\ ev.phase = "Pending"
    /\ ev.node_name = Null

\* the positions of a placement attempt
AttemptPositions == {"list_nodes", "usage", "score", "bind"}

\* C34: a placer lists nodes and calls bind only for an ADDED or MODIFIED
\* event whose pod is Pending and has no node.  Taking such an event from the
\* stream starts one attempt, which lists the nodes once and calls bind at
\* most once before the next event is taken; taking any other event (a
\* DELETED one, one of a pod that is not Pending or has a node) starts none:
\* the placer stays at its stream, lists no node and binds nothing.
C34_AttemptsOnlyForWantedEvents ==
    /\ [](\A p \in Placers : pc[p] \in AttemptPositions => WantedEvent(cur[p]))
    /\ [][\A p \in Placers :
            /\ (/\ pc[p] = "watching"
                /\ Len(stream'[p]) < Len(stream[p])
                /\ pc'[p] \in {"watching", "list_nodes"}) =>
                  IF WantedEvent(Head(stream[p]))
                  THEN /\ pc'[p] = "list_nodes"
                       /\ cur'[p] = Head(stream[p])
                  ELSE /\ pc'[p] = "watching"
                       /\ nodes'[p] = nodes[p]
                       /\ lastBind'[p] = NoBind
                       /\ pods' = pods
            /\ (pc'[p] = "list_nodes" /\ pc[p] # "list_nodes") =>
                  /\ pc[p] = "watching"
                  /\ stream[p] # <<>>
                  /\ cur'[p] = Head(stream[p])
            /\ (pc[p] = "list_nodes" /\ pc'[p] # "list_nodes") =>
                  pc'[p] \in {"usage", "score", "watching", "backoff"}
            /\ (pc[p] = "bind" /\ pc'[p] # "bind") =>
                  pc'[p] \in {"watching", "backoff"}]_vars

\* C34 witness: a placer that has bound one pod and whose other pod was
\* deleted before it had a node is back at its empty stream with no attempt
\* behind the last event it took
C34_Witness ==
    \E p \in Placers :
       /\ pc[p] = "watching"
       /\ stream[p] = <<>>
       /\ lastBind[p] = NoBind
       /\ \E i, j \in PodIds :
             /\ pods[j].scheduler_name = p
             /\ pods[j].node_name # Null
             /\ pods[i].scheduler_name = p
             /\ pods[i].phase = "Absent"
             /\ pods[i].node_name = Null

\* C35: a bind call that the server refuses (the pod has a node already or is
\* gone) or that fails with an API error ends the attempt and nothing else:
\* the pod is left as the server has it, the placer is back at its stream,
\* which keeps its events, with no backoff and no new subscription, and it
\* calls bind again only for another event it takes from the stream.
C35_RefusedBindIsNotFatal ==
    /\ [](\A p \in Placers :
             lastBind[p].result \in {"rejected", "failed"} =>
                /\ pc[p] = "watching"
                /\ cur[p] = NoEvent)
    /\ [][\A p \in Placers :
            /\ (/\ pc[p] = "bind"
                /\ lastBind'[p] # lastBind[p]
                /\ lastBind'[p].result \in {"rejected", "failed"}) =>
                  /\ pods' = pods
                  /\ stream'[p] = stream[p]
                  /\ lastError'[p] = lastError[p]
                  /\ lastBind'[p].pod = cur[p].pod
            /\ (/\ lastBind[p].result \in {"rejected", "failed"}
                /\ lastBind'[p] # lastBind[p]) =>
                  /\ lastBind'[p] = NoBind
                  /\ \/ pc'[p] \in {"expired", "backoff", "subscribe"}
                     \/ /\ stream[p] # <<>>
                        /\ stream'[p] = Tail(stream[p])]_vars

\* C35 witness: the bind of a pod that was deleted during the attempt has
\* been refused, and the placer is at its stream with an event to take
C35_Witness ==
    \E p \in Placers :
       /\ lastBind[p].result = "rejected"
       /\ pods[lastBind[p].pod].phase = "Absent"
       /\ pc[p] = "watching"
       /\ stream[p] # <<>>

\* C36: a decision that chooses the placer the detector has recorded as
\* active lists no deployment and patches none; the detector writes to a
\* deployment only during a switch, which it starts only when the placer
\* chosen differs from the active one.  So a deployment that declares another
\* name, because its patch failed or because it was edited after the switch,
\* keeps that name through such a decision.
C36_NoReconciliationWhileChoiceStays ==
    /\ [][(dpc = "decide" /\ optimal_scheduler' = current_scheduler) =>
             /\ dpc' = "report"
             /\ listed' = <<>>
             /\ patches' = <<>>
             /\ deployments' = deployments]_vars
    /\ [][((deployments' # deployments /\ disturbed' = disturbed)
               \/ Len(patches') > Len(patches)) =>
             /\ dpc = "switch"
             /\ optimal_scheduler # current_scheduler]_vars
    /\ [](dpc = "switch" => optimal_scheduler # current_scheduler)

\* C36 witness: a deployment was edited after the first decision to declare
\* the placer that is not the active one, and still declares it after the
\* second decision, which patched nothing
C36_Witness ==
    /\ applied = 1
    /\ dpc = "report"
    /\ disturbed = 1
    /\ patches = <<>>
    /\ current_scheduler \in Placers
    /\ \E d \in UserDeployments :
          /\ deployments[d] \in Placers
          /\ deployments[d] # current_scheduler

\* C37: after an exception raised by the handling of a pod has sent placer p
\* to its backoff, every pod that is Pending, has no node, declares p and can
\* be parsed is eventually given a placement attempt by p, which binds it
\* unless it finds no node for the pod or its bind call fails: the pod that
\* raised starves no other.
C37_FailingPodStarvesNoOther ==
    \A p \in Placers, i \in PodIds :
       (pc[p] = "backoff" /\ Claimable(p, i) /\ ~ Unparsable(pods[i].spec))
          ~> \/ pods[i].node_name # Null
             \/ pods[i].phase # "Pending"
             \/ /\ lastBind[p].pod = i
                /\ lastBind[p].result \in {"no_node", "failed"}

\* C38: the node GreedyLB binds a pod to is the node it would have selected,
\* from the same scores, for a pod of any other template: the requests of
\* the pod play no part, and no node is left out for lacking the cpu or the
\* memory the pod requests.
C38_GreedyChoiceIgnoresPod ==
    [][\A sp \in SpecNames :
          (/\ pc[GREEDY_LB] = "bind"
           /\ lastBind'[GREEDY_LB] # lastBind[GREEDY_LB]
           /\ lastBind'[GREEDY_LB].result = "accepted")
             => /\ pods'[cur[GREEDY_LB].pod].node_name
                      = GreedyChoice(scores[GREEDY_LB], sp)
                /\ lastBind'[GREEDY_LB].node
                      = GreedyChoice(scores[GREEDY_LB], sp)]_vars

\* C38 witness: GreedyLB has bound a pod to a node that had not the cpu the
\* pod requests: the pods of the node now request more than the node has
C38_Witness ==
    \E i \in PodIds :
        /\ lastBind[GREEDY_LB] = [pod |-> i, node |-> pods[i].node_name,
                                  result |-> "accepted"]
        /\ pods[i].scheduler_name = GREEDY_LB
        /\ pods[i].node_name # Null
        /\ PodsSum(PodsOnNode(pods[i].node_name), "cpu")
              > cpu_allocatable(pods[i].node_name)

\* C39: select_best_node of GreedyLB returns a node exactly when some
\* candidate scores above -1, and the node it returns scores above -1, be it
\* 0 or below 0; when every candidate scores -1 or less it returns no node.
C39_GreedySelectsAboveMinusOne ==
    (returned.fn = "select_best_node" /\ args.p = GREEDY_LB) =>
       \E scored \in {args.scored} :
          /\ returned.node # Null <=>
                \E k \in 1..Len(scored) :
                   scored[k].score > (-1) * CpuDen * MemDen
          /\ returned.node # Null =>
                \E k \in 1..Len(scored) :
                   /\ scored[k].node = returned.node
                   /\ scored[k].score > (-1) * CpuDen * MemDen
                   /\ IsFirstHighest(scored, k)

\* C39 witness: of two candidates scoring -1 and just above -1 the second is
\* returned
C39_Witness ==
    /\ returned.fn = "select_best_node"
    /\ args.p = GREEDY_LB
    /\ Len(args.scored) = 2
    /\ args.scored[1].score = (-1) * CpuDen * MemDen
    /\ args.scored[2].score = 1 - CpuDen * MemDen
    /\ returned.node = args.scored[2].node

\* C40: within one attempt of RefineLB the usage of a node that was used for
\* its feasibility check and its score is the usage of that node that
\* entered the averages of the cluster.
C40_OneSnapshotPerAttempt ==
    \A k \in 1..Len(scores[REFINE_LB]), j \in 1..Len(usages[REFINE_LB]) :
       (/\ scores[REFINE_LB][k].read
        /\ usages[REFINE_LB][j].name = scores[REFINE_LB][k].node)
          => /\ scores[REFINE_LB][k].cpu_available
                   = usages[REFINE_LB][j].cpu_available
             /\ scores[REFINE_LB][k].memory_available
                   = usages[REFINE_LB][j].memory_available

=============================================================================
